---- MODULE Spec2Model ----
(***************************************************************************)
(* A model of the l7700monitor ingestion path: the UDP ingestion loop of   *)
(* server.py (udp_listener), the call-session tracker                      *)
(* (get_or_create_call_session), the bed resolver (resolve_bed_in_room),   *)
(* the framing check of decoder.py and the live subscriber set             *)
(* (active_connections, websocket_endpoint).                               *)
(*                                                                         *)
(* Text is modelled as a sequence of one-character strings, so that        *)
(* lower(), strip(), substring tests and the digit-run search are computed *)
(* and not assumed.  Storage is modelled as the committed tables plus the  *)
(* working copy of the SQLAlchemy session that the loop opens per packet.  *)
(***************************************************************************)
EXTENDS Naturals, Integers, Sequences, FiniteSets, TLC

\* ------------------------------------------------------------------ bounds

\* Packets the ingestion loop receives in one behaviour.
MaxPackets == 2
\* Values of the wall clock (get_karachi_time) in one behaviour.
MaxClock == 2
\* WebSocket connections opened in one behaviour.
MaxConns == 2

\* Calls made on a camera stream or on the camera manager in one behaviour.
MaxCalls == 3
\* Frames the capture loops produce in one behaviour.
MaxFrames == 2
\* Connections (cv2.VideoCapture objects) the capture loops make in one behaviour.
MaxOpens == 2
\* Calls each of two callers makes on the camera manager's lock in one behaviour.
MaxLockCalls == 1
\* Bytes 0x02 put between the scenario's text and the closing 0x03.
MaxPad == 2
\* Rows of the bed table the resolver is tried on.
MaxBeds == 3

\* Python's None / SQL NULL in an id or time column.  Autoincrement ids start
\* at 1, and the code tests ids by truthiness (`if bed_id`, `if cs`).
NULL == 0

\* ------------------------------------------------------------------- text

UpperAlpha ==
    <<"A","B","C","D","E","F","G","H","I","J","K","L","M",
      "N","O","P","Q","R","S","T","U","V","W","X","Y","Z">>

LowerAlpha ==
    <<"a","b","c","d","e","f","g","h","i","j","k","l","m",
      "n","o","p","q","r","s","t","u","v","w","x","y","z">>

Digits == {"0","1","2","3","4","5","6","7","8","9"}

Range(s) == {s[i] : i \in DOMAIN s}

IndexIn(alpha, c) == CHOOSE i \in DOMAIN alpha : alpha[i] = c

\* str.lower() on one character.
LowerCh(c) == IF c \in Range(UpperAlpha) THEN LowerAlpha[IndexIn(UpperAlpha, c)] ELSE c

\* str.upper() on one character.
UpperCh(c) == IF c \in Range(LowerAlpha) THEN UpperAlpha[IndexIn(LowerAlpha, c)] ELSE c

\* str.lower()
Lower(s) == [i \in DOMAIN s |-> LowerCh(s[i])]

\* str.upper()
Upper(s) == [i \in DOMAIN s |-> UpperCh(s[i])]

IsSpace(c) == c = " "

\* str.isalnum() on one character.
IsAlnum(c) == c \in Range(UpperAlpha) \cup Range(LowerAlpha) \cup Digits

\* A regex word character (\w): alphanumeric or underscore.
IsWordCh(c) == IsAlnum(c) \/ c = "_"

\* str.strip(): drop leading and trailing whitespace.
Strip(s) ==
    LET keep == {i \in DOMAIN s : ~IsSpace(s[i])}
    IN  IF keep = {} THEN <<>>
        ELSE LET lo == CHOOSE i \in keep : \A j \in keep : i <= j
                 hi == CHOOSE i \in keep : \A j \in keep : j <= i
             IN  SubSeq(s, lo, hi)

\* Python's `needle in hay` on strings (the empty needle is in every string).
Contains(hay, needle) ==
    \E k \in 0..Len(hay) :
        /\ k + Len(needle) <= Len(hay)
        /\ \A i \in 1..Len(needle) : hay[k + i] = needle[i]

\* server.py _norm: upper-case and keep the alphanumeric characters.
_norm(s) == SelectSeq(Upper(s), IsAlnum)

\* " ".join(tokens)
RECURSIVE JoinSp(_)
JoinSp(ts) ==
    IF ts = <<>> THEN <<>>
    ELSE IF Len(ts) = 1 THEN ts[1]
    ELSE ts[1] \o <<" ">> \o JoinSp(Tail(ts))

\* re.findall(r"\b\d+\b", s): the maximal digit runs that touch no other word
\* character, left to right, as <<start, end>> index pairs.
DigitRuns(s) ==
    {<<a, b>> \in (DOMAIN s) \X (DOMAIN s) :
        /\ a <= b
        /\ \A i \in a..b : s[i] \in Digits
        /\ (a = 1 \/ ~IsWordCh(s[a - 1]))
        /\ (b = Len(s) \/ ~IsWordCh(s[b + 1]))}

RECURSIVE RunsInOrder(_, _)
RunsInOrder(s, runs) ==
    IF runs = {} THEN <<>>
    ELSE LET r == CHOOSE x \in runs : \A y \in runs : x[1] <= y[1]
         IN  <<SubSeq(s, r[1], r[2])>> \o RunsInOrder(s, runs \ {r})

FindAllNums(s) == RunsInOrder(s, DigitRuns(s))

\* --------------------------------------------------------------- topology
\* The topology tables are owned by the administration surface; the ingestion
\* path only reads them.  Rooms carry the unique system_ip the loop looks up;
\* beds are listed in primary-key order, the order the bed query returns.

T_1 == <<"1">>
T_2 == <<"2">>
T_BedA == <<"B","e","d"," ","A">>
T_BedNo1 == <<"B","e","d"," ","N","o"," ","1">>
T_BedNo2 == <<"B","e","d"," ","N","o"," ","2">>
T_Room == <<"W","a","r","d"," ","R","O","O","M">>
T_Intercall == <<"I","N","T","E","R","C","A","L","L","-","I","P">>
T_UNKNOWN == <<"U","N","K","N","O","W","N">>
T_Unknown == <<"U","n","k","n","o","w","n">>
T_Call == <<"C","a","l","l">>
T_Accept == <<"A","c","c","e","p","t">>
T_RESET == <<"R","E","S","E","T">>
T_reset == <<"r","e","s","e","t">>

\* models.py Room: id and system_ip (unique).
Rooms ==
    { [id |-> 1, system_ip |-> "10.0.0.1"],
      [id |-> 2, system_ip |-> "10.0.0.2"] }

\* models.py Bed: id, room_id, bed_number, bed_name.  Room 2 has no bed.
Beds ==
    << [id |-> 1, room_id |-> 1, bed_number |-> T_1, bed_name |-> T_BedA],
       [id |-> 2, room_id |-> 1, bed_number |-> T_2, bed_name |-> <<>>] >>

BedIds == {Beds[i].id : i \in DOMAIN Beds}

\* Source addresses of datagrams: two registered rooms and an unknown device.
SourceIps == {"10.0.0.1", "10.0.0.2", "10.0.0.9"}

\* ---------------------------------------------------------------- decoder
\* A datagram is its length, its first and last byte, and the labels that the
\* text heuristics of the decoder extract from its payload.

STX == 2
ETX == 3
MinPayload == 24

Datagram(len, first, last, bed, room, device, event) ==
    [len |-> len, first |-> first, last |-> last,
     bed |-> bed, room |-> room, device |-> device, event |-> event]

\* Well-framed datagrams: a call, an accept and a reset naming bed 1 or bed 2.
GoodDatagrams ==
    { Datagram(40, STX, ETX, b, T_Room, T_Intercall, e) :
        b \in {T_BedNo1, T_BedNo2}, e \in {T_Call, T_Accept, T_RESET} }

\* Datagrams the framing check rejects: empty, wrong first byte, wrong last
\* byte, and a payload one byte short.
BadDatagrams ==
    { Datagram(0, STX, ETX, T_UNKNOWN, T_UNKNOWN, T_UNKNOWN, T_UNKNOWN),
      Datagram(40, ETX, ETX, T_BedNo1, T_Room, T_Intercall, T_Call),
      Datagram(40, STX, STX, T_BedNo1, T_Room, T_Intercall, T_Call),
      Datagram(MinPayload + 1, STX, ETX, T_BedNo1, T_Room, T_Intercall, T_Call) }

Datagrams == GoodDatagrams \cup BadDatagrams

\* What arrives: every well-framed datagram from the room that has beds, a
\* call and a reset from the room without beds and from the unknown device,
\* and every rejected datagram.
Arrivals ==
    (GoodDatagrams \X {"10.0.0.1"})
    \cup ({d \in GoodDatagrams : d.bed = T_BedNo1 /\ d.event # T_Accept}
            \X {"10.0.0.2", "10.0.0.9"})
    \cup (BadDatagrams \X {"10.0.0.9"})

\* What arrives while viewers are connected: calls from bed 1 and datagrams
\* with a wrong last byte.
ViewedArrivals ==
    {<<d, ip>> \in Arrivals :
        \/ ip = "10.0.0.1" /\ d.bed = T_BedNo1 /\ d.event = T_Call
        \/ d.last # ETX}

\* The decoder's None.
NoDecode == [ok |-> FALSE]

\* decoder.py lines 94-115: the title/subtitle mapping and the returned dict.
DecodedFields(d) ==
    LET title == IF d.bed # T_UNKNOWN THEN d.bed ELSE d.room
        subtitle == IF d.bed # T_UNKNOWN THEN d.room ELSE <<>>
    IN  [ok |-> TRUE,
         room |-> Strip(title), bed |-> Strip(subtitle),
         bed_name |-> Strip(d.bed), room_name |-> Strip(d.room),
         device |-> Strip(d.device), event |-> Strip(d.event)]

\* A decoder that does not look at the last byte of the frame.
DecodeAnyTrailer(d) ==
    IF d.len = 0 \/ d.first # STX THEN NoDecode
    ELSE IF d.len - 2 < MinPayload THEN NoDecode
    ELSE DecodedFields(d)

\* decoder.py decode_l7700_packet: None unless the frame is 0x02 .. 0x03 around
\* a payload of at least 24 bytes; otherwise the decoded fields.
decode_l7700_packet(d) ==
    IF d.len = 0 \/ d.first # STX \/ d.last # ETX THEN NoDecode
    ELSE IF d.len - 2 < MinPayload THEN NoDecode
    ELSE DecodedFields(d)

\* --------------------------------------------------------------- resolver

\* session.query(Bed).filter(Bed.room_id == room.id).all()
BedsOfRoom(room_id) == SelectSeq(Beds, LAMBDA b : b.room_id = room_id)

\* The candidate tokens: the stripped non-empty values of bed, device, room.
Tokens(dec) ==
    SelectSeq(<<Strip(dec.bed), Strip(dec.device), Strip(dec.room)>>,
              LAMBDA v : v # <<>>)

\* First pair in loop order (outer index first) of a set of index pairs.
FirstPair(hits) ==
    CHOOSE h \in hits : \A g \in hits : h[1] < g[1] \/ (h[1] = g[1] /\ h[2] <= g[2])

\* Tier 1: a token equal, ignoring case, to a bed's number or name.
ExactHits(tokens, beds) ==
    {<<t, b>> \in (DOMAIN tokens) \X (DOMAIN beds) :
        \/ beds[b].bed_number # <<>> /\ Lower(Strip(beds[b].bed_number)) = Lower(tokens[t])
        \/ beds[b].bed_name # <<>> /\ Lower(Strip(beds[b].bed_name)) = Lower(tokens[t])}

\* Tier 2: normalized substring match, beds in the outer loop.
PartialHits(tokens, beds) ==
    {<<b, t>> \in (DOMAIN beds) \X (DOMAIN tokens) :
        LET nt == _norm(tokens[t])
            bn == _norm(beds[b].bed_number)
            bname == _norm(beds[b].bed_name)
        IN  /\ nt # <<>>
            /\ \/ Contains(bname, nt)
               \/ Contains(bn, nt)
               \/ bname # <<>> /\ Contains(nt, bname)
               \/ bn # <<>> /\ Contains(nt, bn)}

\* Tier 3: a standalone digit run equal to a bed's stripped number.
NumericHits(tokens, beds) ==
    LET nums == FindAllNums(JoinSp(tokens))
    IN  {<<n, b>> \in (DOMAIN nums) \X (DOMAIN beds) : Strip(beds[b].bed_number) = nums[n]}

\* Tier 4: the only bed, or the bed with the smallest id.
FallbackBed(beds) ==
    IF Len(beds) = 1 THEN beds[1]
    ELSE CHOOSE b \in Range(beds) : \A c \in Range(beds) : b.id <= c.id

\* A resolution that tries the normalized partial match first.
BedAmong_PartialFirst(beds, tokens) ==
    IF beds = <<>> THEN NULL
    ELSE IF PartialHits(tokens, beds) # {}
         THEN beds[FirstPair(PartialHits(tokens, beds))[1]].id
    ELSE IF ExactHits(tokens, beds) # {}
         THEN beds[FirstPair(ExactHits(tokens, beds))[2]].id
    ELSE IF NumericHits(tokens, beds) # {}
         THEN beds[FirstPair(NumericHits(tokens, beds))[2]].id
    ELSE FallbackBed(beds).id

\* Lines 43-87 of resolve_bed_in_room on the beds the query returned and the
\* tokens: the bed's id, or NULL without beds.
BedAmong(beds, tokens) ==
    IF beds = <<>> THEN NULL
    ELSE IF ExactHits(tokens, beds) # {}
         THEN beds[FirstPair(ExactHits(tokens, beds))[2]].id
    ELSE IF PartialHits(tokens, beds) # {}
         THEN beds[FirstPair(PartialHits(tokens, beds))[1]].id
    ELSE IF NumericHits(tokens, beds) # {}
         THEN beds[FirstPair(NumericHits(tokens, beds))[2]].id
    ELSE FallbackBed(beds).id

\* A bed query that does not filter by room.
BedsIn_AnyRoom(table, room_id) == table

\* Line 42 on a bed table: session.query(Bed).filter(Bed.room_id == room.id).all()
BedsIn(table, room_id) == SelectSeq(table, LAMBDA b : b.room_id = room_id)

\* Lines 32-87 on a bed table: None without a room (line 39; line 405 does
\* not even call without one), else the bed among the room's beds.
resolve_bed(table, room_id, dec) ==
    IF room_id = NULL THEN NULL
    ELSE BedAmong(BedsIn(table, room_id), Tokens(dec))

\* server.py resolve_bed_in_room: the bed's id, or NULL.
resolve_bed_in_room(room, dec) ==
    IF room = NULL THEN NULL
    ELSE BedAmong(BedsOfRoom(room), Tokens(dec))

\* session.query(Room).filter(Room.system_ip == incoming_ip).first()
RoomByIp(ip) ==
    IF \E r \in Rooms : r.system_ip = ip
    THEN (CHOOSE r \in Rooms : r.system_ip = ip).id
    ELSE NULL

\* Lines 398 and 405 for each arrival whose datagram decodes:
\*   room = session.query(Room).filter(Room.system_ip == incoming_ip).first()
\*   bed = resolve_bed_in_room(session, room, decoded) if room else None
Resolutions(arrivals) ==
    { LET r == RoomByIp(a[2])
      IN  [data |-> a[1], addr |-> a[2], room |-> r,
           bed |-> IF r # NULL THEN resolve_bed_in_room(r, decode_l7700_packet(a[1]))
                   ELSE NULL] :
        a \in {x \in arrivals : x[1] \in GoodDatagrams} }

\* A comparison with 'reset' that does not fold case.
IsResetExact(event_type) == event_type = T_reset

\* event_type.lower() == 'reset'
IsReset(event_type) == Lower(event_type) = T_reset

\* ------------------------------------------------------------------ state

VARIABLES
    env,                \* what the surroundings do in this behaviour
    pc,                 \* where the ingestion task (udp_listener) stands
    now,                \* the wall clock, get_karachi_time()
    nPackets,           \* datagrams received so far
    data, addr,         \* the datagram in hand and its source address
    decoded,            \* decode_l7700_packet(data)
    room, bed,          \* ids of the resolved room and bed, or NULL
    system_time,        \* the cycle's system time
    event_type,
    cs,                 \* id of the CallSession object in hand, or NULL
    call_session_id,
    event_id,           \* id of the Event committed in this cycle, or NULL
    db_call_sessions,   \* committed call_sessions rows, by id
    db_events,          \* committed events rows, by id
    tx_call_sessions,   \* the open SQLAlchemy session's view of call_sessions
    tx_events,          \* the open SQLAlchemy session's view of events
    active_connections, \* the dict's entries in insertion order; NULL = deleted
    opened,             \* WebSocket connections accepted so far (the next id)
    inbox,              \* per connection, the event ids its peer received
    it_used, it_pos,    \* the dict iterator: size at creation, last entry read
    ws,                 \* the connection the loop is sending to
    dead,               \* connections whose send raised in this broadcast
    bstart,             \* history: connections in the dict when the broadcast began
    failed,             \* history: connections whose send has raised, ever
    sess0, ev0,         \* history: the committed tables when the cycle began
    fault,              \* history: a storage operation raised in this cycle
    run, runS, runE,    \* history: per bed, the current run of non-reset events
    arrival,            \* history: per committed Event, the number of its packet
    cam_env,            \* what is exercised: a stream directly, or the manager
    streams,            \* the CameraSimulator / RealCameraStream objects made so far
    threads,            \* the threads started so far, each running a stream's loop
    caps,               \* the cv2.VideoCapture objects made so far
    frames,             \* the frame buffers (ndarrays) made so far
    cameras,            \* CameraManager.cameras: (key, stream) pairs
    call,               \* the call in progress, or the last one and its result
    nCalls,             \* calls begun so far
    published,          \* history: per stream, the frames published, in order
    todo,               \* shutdown's list `cams`: the streams it has still to stop
    lock,               \* CameraManager._lock: NULL when free, else the caller holding it
    other,              \* the call of a second caller, on another room key
    feed,               \* a /camera/{room_name} response: its generator and what it has sent
    probe               \* a function applied on its own: its input and what it returned

locals == <<data, addr, decoded, room, bed, system_time, event_type, cs,
            call_session_id, event_id>>
db == <<db_call_sessions, db_events>>
tx == <<tx_call_sessions, tx_events>>
conns == <<active_connections, opened, inbox, failed>>
iter == <<it_used, it_pos, ws, dead, bstart>>
cycle == <<sess0, ev0, fault>>
runs == <<run, runS, runE>>
ingest == <<env, pc, now, nPackets, locals, db, tx, conns, iter, cycle, runs, arrival>>
cams == <<cam_env, streams, threads, caps, frames, cameras, call, nCalls, published>>
more == <<todo, lock, other, feed, probe>>
vars == <<ingest, cams, more>>

ConnIds == 1..MaxConns

NoDatagram == Datagram(0, NULL, NULL, <<>>, <<>>, <<>>, <<>>)

\* session.query(CallSession).filter(bed_id == b, status == 'active').first():
\* the id of the first such row, or NULL.
ActiveSessionOf(table, b) ==
    LET hit == {i \in DOMAIN table : table[i].bed_id = b /\ table[i].status = "active"}
    IN  IF hit = {} THEN NULL ELSE CHOOSE i \in hit : \A j \in hit : i <= j

\* The connections currently in the dict.
Live(entries) == {entries[i] : i \in DOMAIN entries} \ {NULL}

\* The dict's entries with the deleted ones squeezed out (what a resize does).
Compact(entries) == SelectSeq(entries, LAMBDA c : c # NULL)

\* active_connections.pop(cid, None)
Pop(entries, cid) == [i \in DOMAIN entries |-> IF entries[i] = cid THEN NULL ELSE entries[i]]

RECURSIVE PopAll(_, _)
PopAll(entries, cids) ==
    IF cids = <<>> THEN entries ELSE PopAll(Pop(entries, Head(cids)), Tail(cids))

\* True while the loop holds an iterator over active_connections.
Iterating == pc \in {"for_next", "send"}

\* The ingestion task is suspended in an await (recvfrom in the executor, or a
\* send): only then do other tasks of the event loop run.
Suspended == pc \in {"recv", "send", "exited"}

\* The row get_or_create_call_session adds for a bed with no active session.
NewCallSession(id, bed_id, et) ==
    [id |-> id, bed_id |-> bed_id, current_event_type |-> et,
     status |-> "active", ended_at |-> NULL]

\* The row of a session that a reset ends.
EndedRow(row, at) == [row EXCEPT !.status = "ended", !.ended_at = at]

\* A call from bed 1 that is in storage when the process starts, and the reset
\* that followed it.
CallEvent1 == [id |-> 1, room_id |-> 1, bed_id |-> 1, call_session_id |-> 1,
               event_type |-> T_Call]
ResetEvent2 == [id |-> 2, room_id |-> 1, bed_id |-> 1, call_session_id |-> NULL,
                event_type |-> T_RESET]

\* Storage outlives the process.  The tables at start-up: empty; bed 1 with an
\* active session left by a call; bed 1 with a session that a reset ended.
InitialStores ==
    { [call_sessions |-> <<>>, events |-> <<>>],
      [call_sessions |-> <<NewCallSession(1, 1, T_Call)>>,
       events |-> <<CallEvent1>>],
      [call_sessions |-> <<EndedRow(NewCallSession(1, 1, T_Call), 1)>>,
       events |-> <<CallEvent1, ResetEvent2>>] }

\* The surroundings of one behaviour.  The product of datagram histories and
\* viewer histories is too large to enumerate, so a behaviour has either the
\* full mix of datagrams over any start-up store and no viewer, or calls and
\* rejected datagrams over an empty store and up to MaxConns viewers.
Environments ==
    { [arrivals |-> Arrivals, viewers |-> 0, stores |-> InitialStores,
       resolved |-> Resolutions(Arrivals)],
      [arrivals |-> ViewedArrivals, viewers |-> MaxConns,
       stores |-> {s \in InitialStores : s.events = <<>>},
       resolved |-> Resolutions(ViewedArrivals)] }

\* A frame as get_frame copies it, and the None of an empty slot.
NoImage == [id |-> NULL, complete |-> FALSE]

\* The None that get_frame returns.
NoBytes == [format |-> "none", image |-> NoImage]

\* A call on a stream or on the manager: the operation, where it stands, the
\* stream and the key it works on, the copy get_frame took, how many frames
\* had been published when it took it, and the value returned.
Call(op, at_pc, sid, key) ==
    [op |-> op, pc |-> at_pc, sid |-> sid, key |-> key,
     copy |-> NoImage, at |-> 0, result |-> NoBytes]

\* No call in progress.
NoCall == Call("none", "done", NULL, <<>>)

\* The camera side before anything is constructed.
CamOff ==
    /\ cam_env = [mode |-> "off", use_simulation |-> FALSE]
    /\ streams = <<>> /\ threads = <<>> /\ caps = <<>> /\ frames = <<>>
    /\ cameras = {}
    /\ call = NoCall /\ nCalls = 0
    /\ published = <<>>

\* No /camera response in progress.
NoFeed == [pc |-> "off", room_name |-> <<>>, chunks |-> <<>>, idle |-> 0]

\* No function applied on its own.
NoProbe == [fn |-> "none"]

\* Nothing else in progress.
MoreOff ==
    /\ todo = <<>>
    /\ lock = NULL
    /\ other = [op |-> "none", pc |-> "done", sid |-> NULL, n |-> 0, during |-> "none"]
    /\ feed = NoFeed
    /\ probe = NoProbe

Init ==
    /\ CamOff
    /\ MoreOff
    /\ env \in Environments
    /\ pc = "bind"
    /\ now = 1
    /\ nPackets = 0
    /\ data = NoDatagram /\ addr = "" /\ decoded = NoDecode
    /\ room = NULL /\ bed = NULL /\ system_time = NULL /\ event_type = <<>>
    /\ cs = NULL /\ call_session_id = NULL /\ event_id = NULL
    /\ \E s \in env.stores :
        /\ db_call_sessions = s.call_sessions
        /\ db_events = s.events
    /\ tx_call_sessions = <<>> /\ tx_events = <<>>
    /\ active_connections = <<>> /\ opened = 0
    /\ inbox = [c \in ConnIds |-> <<>>]
    /\ failed = {}
    /\ it_used = 0 /\ it_pos = 0 /\ ws = NULL /\ dead = <<>> /\ bstart = {}
    /\ sess0 = <<>> /\ ev0 = <<>> /\ fault = FALSE
    /\ run = [b \in BedIds |-> <<>>]
    /\ runS = [b \in BedIds |-> 0]
    /\ runE = [b \in BedIds |-> 0]
    /\ arrival = [i \in DOMAIN db_events |-> 0]

\* ------------------------------------------------------ the ingestion loop

\* udp_listener: sock.bind succeeds, or raises OSError and the task returns.
Bind ==
    /\ pc = "bind"
    /\ \/ pc' = "recv"
       \/ pc' = "exited"
    /\ UNCHANGED <<now, env, nPackets, locals, db, tx, conns, iter, cycle, runs>>
    /\ UNCHANGED arrival
    /\ UNCHANGED cams
    /\ UNCHANGED more

\* await loop.run_in_executor(None, sock.recvfrom, 2048) returns a datagram.
Recv ==
    /\ pc = "recv"
    /\ nPackets < MaxPackets
    /\ \E d \in Datagrams, ip \in SourceIps :
        /\ <<d, ip>> \in env.arrivals
        /\ data' = d
        /\ addr' = ip
    /\ nPackets' = nPackets + 1
    /\ pc' = "decode"
    /\ sess0' = db_call_sessions
    /\ ev0' = db_events
    /\ fault' = FALSE
    /\ UNCHANGED <<env, now, decoded, room, bed, system_time, event_type, cs,
                   call_session_id, event_id, db, tx, conns, iter, runs>>
    /\ UNCHANGED arrival
    /\ UNCHANGED cams
    /\ UNCHANGED more

\* recvfrom raises: the outer handler logs and the loop goes round.
RecvRaises ==
    /\ pc = "recv"
    /\ pc' = "recv"
    /\ UNCHANGED <<now, env, nPackets, locals, db, tx, conns, iter, cycle, runs>>
    /\ UNCHANGED arrival
    /\ UNCHANGED cams
    /\ UNCHANGED more

\* The loop's locals after a cycle; none is read before it is assigned again.
ClearLocals ==
    /\ data' = NoDatagram /\ addr' = "" /\ decoded' = NoDecode
    /\ room' = NULL /\ bed' = NULL /\ system_time' = NULL /\ event_type' = <<>>
    /\ cs' = NULL /\ call_session_id' = NULL /\ event_id' = NULL
    /\ it_used' = 0 /\ it_pos' = 0 /\ ws' = NULL /\ dead' = <<>> /\ bstart' = {}
    /\ sess0' = <<>> /\ ev0' = <<>> /\ fault' = FALSE

\* decoded = decode_l7700_packet(data); `if not decoded: continue`; otherwise
\* session = get_db_session(engine) opens a unit of work on the committed data.
Decode ==
    /\ pc = "decode"
    /\ LET d == decode_l7700_packet(data)
       IN  IF ~d.ok
           THEN /\ pc' = "recv"
                /\ UNCHANGED <<locals, tx, iter, cycle>>
           ELSE /\ decoded' = d
                /\ pc' = "resolve"
                /\ tx_call_sessions' = db_call_sessions
                /\ tx_events' = db_events
                /\ UNCHANGED <<data, addr, room, bed, system_time, event_type,
                               cs, call_session_id, event_id, iter, cycle>>
    /\ UNCHANGED <<now, env, nPackets, db, conns, runs>>
    /\ UNCHANGED arrival
    /\ UNCHANGED cams
    /\ UNCHANGED more

\* Lines 397-415: the room by source address, the bed inside it, the cycle's
\* system time and the event type.
Resolve ==
    /\ pc = "resolve"
    /\ \E r \in env.resolved :
        /\ r.data = data /\ r.addr = addr
        /\ room' = r.room
        /\ bed' = r.bed
    /\ system_time' = now
    /\ event_type' = (IF decoded.event # <<>> THEN decoded.event ELSE T_Unknown)
    /\ pc' = "reset_branch"
    /\ UNCHANGED <<now, env, nPackets, data, addr, decoded, cs, call_session_id,
                   event_id, db, tx, conns, iter, cycle, runs>>
    /\ UNCHANGED arrival
    /\ UNCHANGED cams
    /\ UNCHANGED more

\* Lines 417-425: a reset with a bed looks up the bed's active session and marks
\* it ended in the unit of work.
ResetBranch ==
    /\ pc = "reset_branch"
    /\ IF IsReset(event_type) /\ bed # NULL
       THEN LET a == ActiveSessionOf(tx_call_sessions, bed)
            IN  IF a # NULL
                THEN /\ tx_call_sessions' =
                            [tx_call_sessions EXCEPT ![a] = EndedRow(@, system_time)]
                     /\ cs' = a
                     /\ pc' = "reset_commit"
                ELSE /\ pc' = "session_branch"
                     /\ UNCHANGED <<tx_call_sessions, cs>>
       ELSE /\ pc' = "session_branch"
            /\ UNCHANGED <<tx_call_sessions, cs>>
    /\ UNCHANGED <<now, env, nPackets, data, addr, decoded, room, bed, system_time,
                   event_type, call_session_id, event_id, db, tx_events, conns,
                   iter, cycle, runs>>
    /\ UNCHANGED arrival
    /\ UNCHANGED cams
    /\ UNCHANGED more

\* session.commit(): the unit of work becomes the committed data.
Commit ==
    /\ db_call_sessions' = tx_call_sessions
    /\ db_events' = tx_events
    /\ UNCHANGED tx

\* Line 426: session.commit() of the ended session.
ResetCommit ==
    /\ pc = "reset_commit"
    /\ Commit
    /\ pc' = "session_branch"
    /\ UNCHANGED <<now, env, nPackets, locals, conns, iter, cycle, runs>>
    /\ UNCHANGED arrival
    /\ UNCHANGED cams
    /\ UNCHANGED more

\* A get_or_create_call_session that skips the lookup and always adds a row.
AlwaysCreateCallSession(table, bed_id, et) ==
    Append(table, NewCallSession(Len(table) + 1, bed_id, et))

\* A get_or_create_call_session that leaves an active session as it finds it.
KeepFirstEventType(table, bed_id, et) ==
    IF ActiveSessionOf(table, bed_id) # NULL THEN table
    ELSE Append(table, NewCallSession(Len(table) + 1, bed_id, et))

\* A get_or_create_call_session that reopens the bed's last ended session
\* when the bed has no active one.
ReopenEndedSession(table, bed_id, et) ==
    LET a == ActiveSessionOf(table, bed_id)
        e == {i \in DOMAIN table : table[i].bed_id = bed_id /\ table[i].status = "ended"}
    IN  IF a # NULL
        THEN [table EXCEPT ![a].current_event_type = et]
        ELSE IF e # {}
        THEN LET i == CHOOSE i \in e : \A j \in e : j <= i
             IN  [table EXCEPT ![i].status = "active", ![i].ended_at = NULL,
                               ![i].current_event_type = et]
        ELSE Append(table, NewCallSession(Len(table) + 1, bed_id, et))

\* get_or_create_call_session up to its commit: overwrite current_event_type of
\* the bed's active session, or add a new active session.
get_or_create_call_session(table, bed_id, et) ==
    LET a == ActiveSessionOf(table, bed_id)
    IN  IF a # NULL
        THEN [table EXCEPT ![a].current_event_type = et]
        ELSE Append(table, NewCallSession(Len(table) + 1, bed_id, et))

\* Lines 430-432 without the test of the event type.
SessionBranch_AnyEvent ==
    /\ pc = "session_branch"
    /\ call_session_id' = NULL
    /\ IF bed # NULL
       THEN /\ LET t == get_or_create_call_session(tx_call_sessions, bed, event_type)
               IN  /\ tx_call_sessions' = t
                   /\ cs' = ActiveSessionOf(t, bed)
            /\ pc' = "session_commit"
       ELSE /\ pc' = "save_event"
            /\ UNCHANGED <<tx_call_sessions, cs>>
    /\ UNCHANGED <<now, env, nPackets, data, addr, decoded, room, bed, system_time,
                   event_type, event_id, db, tx_events, conns, iter, cycle, runs>>
    /\ UNCHANGED arrival
    /\ UNCHANGED cams
    /\ UNCHANGED more

\* Lines 430-432: a non-reset event with a bed goes through
\* get_or_create_call_session.
SessionBranch ==
    /\ pc = "session_branch"
    /\ call_session_id' = NULL
    /\ IF ~IsReset(event_type) /\ bed # NULL
       THEN /\ LET t == get_or_create_call_session(tx_call_sessions, bed, event_type)
               IN  /\ tx_call_sessions' = t
                   /\ cs' = ActiveSessionOf(t, bed)
            /\ pc' = "session_commit"
       ELSE /\ pc' = "save_event"
            /\ UNCHANGED <<tx_call_sessions, cs>>
    /\ UNCHANGED <<now, env, nPackets, data, addr, decoded, room, bed, system_time,
                   event_type, event_id, db, tx_events, conns, iter, cycle, runs>>
    /\ UNCHANGED arrival
    /\ UNCHANGED cams
    /\ UNCHANGED more

\* A get_or_create_call_session that flushes its row without committing it.
SessionFlush ==
    /\ pc = "session_commit"
    /\ pc' = "session_id"
    /\ UNCHANGED <<now, env, nPackets, locals, db, tx, conns, iter, cycle, runs>>
    /\ UNCHANGED arrival
    /\ UNCHANGED cams
    /\ UNCHANGED more

\* Lines 97 and 106: session.commit() inside get_or_create_call_session.
SessionCommit ==
    /\ pc = "session_commit"
    /\ Commit
    /\ pc' = "session_id"
    /\ UNCHANGED <<now, env, nPackets, locals, conns, iter, cycle, runs>>
    /\ UNCHANGED arrival
    /\ UNCHANGED cams
    /\ UNCHANGED more

\* Line 433: call_session_id = cs.id (the object is expired by the commit, so
\* reading it reloads the row inside the session).
SessionId ==
    /\ pc = "session_id"
    /\ call_session_id' = tx_call_sessions[cs].id
    /\ pc' = "save_event"
    /\ UNCHANGED <<now, env, nPackets, data, addr, decoded, room, bed, system_time,
                   event_type, cs, event_id, db, tx, conns, iter, cycle, runs>>
    /\ UNCHANGED arrival
    /\ UNCHANGED cams
    /\ UNCHANGED more

\* An Event row that never carries its session.
NewEvent_Unlinked(id) ==
    [id |-> id, room_id |-> room, bed_id |-> bed,
     call_session_id |-> NULL, event_type |-> event_type]

\* The Event row of lines 436-447.
NewEvent(id) ==
    [id |-> id, room_id |-> room, bed_id |-> bed,
     call_session_id |-> call_session_id, event_type |-> event_type]

\* A save that writes an Event only when a room was resolved.
SaveResolvedEvent ==
    /\ pc = "save_event"
    /\ tx_events' = IF room = NULL THEN tx_events
                    ELSE Append(tx_events, NewEvent(Len(tx_events) + 1))
    /\ pc' = "event_commit"
    /\ UNCHANGED <<now, env, nPackets, locals, db, tx_call_sessions, conns, iter,
                   cycle, runs>>
    /\ UNCHANGED arrival
    /\ UNCHANGED cams
    /\ UNCHANGED more

\* Line 448: session.add(event).
SaveEvent ==
    /\ pc = "save_event"
    /\ tx_events' = Append(tx_events, NewEvent(Len(tx_events) + 1))
    /\ pc' = "event_commit"
    /\ UNCHANGED <<now, env, nPackets, locals, db, tx_call_sessions, conns, iter,
                   cycle, runs>>
    /\ UNCHANGED arrival
    /\ UNCHANGED cams
    /\ UNCHANGED more

\* A save of the Event that flushes it and goes on without committing.
EventFlush ==
    /\ pc = "event_commit"
    /\ event_id' = Len(tx_events)
    /\ pc' = "build_message"
    /\ UNCHANGED <<now, env, nPackets, data, addr, decoded, room, bed, system_time,
                   event_type, cs, call_session_id, db, tx, conns, iter, cycle, runs>>
    /\ UNCHANGED arrival
    /\ UNCHANGED cams
    /\ UNCHANGED more

\* Line 449: session.commit() of the Event.
EventCommit ==
    /\ pc = "event_commit"
    /\ Commit
    /\ event_id' = Len(tx_events)
    /\ pc' = "build_message"
    /\ UNCHANGED <<now, env, nPackets, data, addr, decoded, room, bed, system_time,
                   event_type, cs, call_session_id, conns, iter, cycle, runs>>
    /\ arrival' = Append(arrival, nPackets)
    /\ UNCHANGED cams
    /\ UNCHANGED more

\* Lines 451-480: the payload is built (reloading the committed Event, room and
\* bed) and the for loop takes an iterator over active_connections.
BuildMessage ==
    /\ pc = "build_message"
    /\ it_used' = Cardinality(Live(active_connections))
    /\ it_pos' = 0
    /\ dead' = <<>>
    /\ bstart' = Live(active_connections)
    /\ pc' = "for_next"
    /\ UNCHANGED <<now, env, nPackets, locals, db, tx, conns, ws, cycle, runs>>
    /\ UNCHANGED arrival
    /\ UNCHANGED cams
    /\ UNCHANGED more

\* The entries the iterator has not read yet.
Unread(entries, pos) == {i \in DOMAIN entries : i > pos /\ entries[i] # NULL}

\* One turn of `for cid, ws in active_connections.items()`: RuntimeError when
\* the dict changed size since the iterator was made; else the next entry; else
\* the loop ends and lines 486-487 pop the dead connections.
ForNext ==
    /\ pc = "for_next"
    /\ IF Cardinality(Live(active_connections)) # it_used
       THEN /\ pc' = "except"
            /\ UNCHANGED <<active_connections, it_pos, ws>>
       ELSE IF Unread(active_connections, it_pos) # {}
       THEN LET i == CHOOSE i \in Unread(active_connections, it_pos) :
                        \A j \in Unread(active_connections, it_pos) : i <= j
            IN  /\ it_pos' = i
                /\ ws' = active_connections[i]
                /\ pc' = "send"
                /\ UNCHANGED active_connections
       ELSE /\ active_connections' = Compact(PopAll(active_connections, dead))
            /\ pc' = "close"
            /\ UNCHANGED <<it_pos, ws>>
    /\ UNCHANGED <<now, env, nPackets, locals, db, tx, opened, inbox, failed, it_used, dead,
                   bstart, cycle, runs>>
    /\ UNCHANGED arrival
    /\ UNCHANGED cams
    /\ UNCHANGED more

\* A delivery that puts the notification ahead of those the peer already has.
SendOk_Prepend ==
    /\ pc = "send"
    /\ inbox' = [inbox EXCEPT ![ws] = <<event_id>> \o @]
    /\ pc' = "for_next"
    /\ UNCHANGED <<now, env, nPackets, locals, db, tx, active_connections, opened,
                   failed, iter, cycle, runs>>
    /\ UNCHANGED arrival
    /\ UNCHANGED cams
    /\ UNCHANGED more

\* await ws.send_text(message) completes: the peer receives the notification.
SendOk ==
    /\ pc = "send"
    /\ inbox' = [inbox EXCEPT ![ws] = Append(@, event_id)]
    /\ pc' = "for_next"
    /\ UNCHANGED <<now, env, nPackets, locals, db, tx, active_connections, opened,
                   failed, iter, cycle, runs>>
    /\ UNCHANGED arrival
    /\ UNCHANGED cams
    /\ UNCHANGED more

\* await ws.send_text(message) raises: lines 483-485.
SendRaises ==
    /\ pc = "send"
    /\ dead' = Append(dead, ws)
    /\ failed' = failed \cup {ws}
    /\ pc' = "for_next"
    /\ UNCHANGED <<now, env, nPackets, locals, db, tx, active_connections, opened,
                   inbox, it_used, it_pos, ws, bstart, cycle, runs>>
    /\ UNCHANGED arrival
    /\ UNCHANGED cams
    /\ UNCHANGED more

\* The positions at which the loop is inside a storage call that can raise:
\* the room and bed queries, the session queries, the commits and the reloads
\* of committed rows.
InStorageCall ==
    \/ pc \in {"resolve", "reset_commit", "session_commit", "session_id",
               "event_commit", "build_message"}
    \/ pc = "reset_branch" /\ IsReset(event_type) /\ bed # NULL
    \/ pc = "session_branch" /\ ~IsReset(event_type) /\ bed # NULL

\* A storage call raises: control passes to `except Exception` at line 489.
StorageRaises ==
    /\ InStorageCall
    /\ fault' = TRUE
    /\ pc' = "except"
    /\ UNCHANGED <<now, env, nPackets, locals, db, tx, conns, iter, sess0, ev0, runs>>
    /\ UNCHANGED arrival
    /\ UNCHANGED cams
    /\ UNCHANGED more

\* session.rollback(): the unit of work is discarded.
Rollback ==
    /\ tx_call_sessions' = db_call_sessions
    /\ tx_events' = db_events

\* A handler that rolls back and re-raises, which ends the task.
Except_Propagates ==
    /\ pc = "except"
    /\ Rollback
    /\ pc' = "exited"
    /\ UNCHANGED <<now, env, nPackets, locals, db, conns, iter, cycle, runs>>
    /\ UNCHANGED arrival
    /\ UNCHANGED cams
    /\ UNCHANGED more

\* Lines 489-493: log, then session.rollback(), which may itself raise and is
\* then logged by the outer handler after the finally clause.
Except ==
    /\ pc = "except"
    /\ Rollback
    /\ pc' = "close"
    /\ UNCHANGED <<now, env, nPackets, locals, db, conns, iter, cycle, runs>>
    /\ UNCHANGED arrival
    /\ UNCHANGED cams
    /\ UNCHANGED more

\* History of runs: a stored non-reset event starts a run when its bed had no
\* active session as the cycle began, and extends a run in progress; a reset or
\* a cycle that stored no event ends the bed's run.
RunsAfterCycle ==
    IF bed = NULL THEN UNCHANGED runs
    ELSE IF IsReset(event_type) \/ event_id = NULL
         THEN /\ run' = [run EXCEPT ![bed] = <<>>]
              /\ UNCHANGED <<runS, runE>>
    ELSE IF run[bed] # <<>>
         THEN /\ run' = [run EXCEPT ![bed] = Append(@, event_type)]
              /\ UNCHANGED <<runS, runE>>
    ELSE IF ActiveSessionOf(sess0, bed) = NULL
         THEN /\ run' = [run EXCEPT ![bed] = <<event_type>>]
              /\ runS' = [runS EXCEPT ![bed] =
                            Len(SelectSeq(sess0, LAMBDA r : r.bed_id = bed))]
              /\ runE' = [runE EXCEPT ![bed] =
                            Len(SelectSeq(ev0, LAMBDA r : r.bed_id = bed))]
    ELSE UNCHANGED runs

\* Lines 494-495: finally session.close(); the loop goes round.
Close ==
    /\ pc = "close"
    /\ Rollback
    /\ RunsAfterCycle
    /\ ClearLocals
    /\ pc' = "recv"
    /\ UNCHANGED <<now, env, nPackets, db, conns>>
    /\ UNCHANGED arrival
    /\ UNCHANGED cams
    /\ UNCHANGED more

\* ------------------------------------------------------- the other tasks

\* A connect that is sent the events stored so far.
Connect_Replays ==
    /\ Suspended
    /\ opened < env.viewers
    /\ opened' = opened + 1
    /\ \/ active_connections' = Append(active_connections, opened + 1)
       \/ /\ Iterating
          /\ active_connections # Compact(active_connections)
          /\ active_connections' = Append(Compact(active_connections), opened + 1)
    /\ inbox' = [inbox EXCEPT ![opened + 1] =
                    [i \in DOMAIN db_events |-> db_events[i].id]]
    /\ UNCHANGED <<pc, now, env, nPackets, locals, db, tx, failed, iter, cycle,
                   runs>>
    /\ UNCHANGED arrival
    /\ UNCHANGED cams
    /\ UNCHANGED more

\* websocket_endpoint: accept, then active_connections[client_id] = ws.  An
\* insert may resize the dict, which squeezes out the deleted entries.
Connect ==
    /\ Suspended
    /\ opened < env.viewers
    /\ opened' = opened + 1
    /\ \/ active_connections' = Append(active_connections, opened + 1)
       \/ /\ Iterating
          /\ active_connections # Compact(active_connections)
          /\ active_connections' = Append(Compact(active_connections), opened + 1)
    /\ UNCHANGED <<pc, now, env, nPackets, locals, db, tx, inbox, failed, iter, cycle,
                   runs>>
    /\ UNCHANGED arrival
    /\ UNCHANGED cams
    /\ UNCHANGED more

\* websocket_endpoint: the peer disconnects; finally
\* active_connections.pop(client_id, None).
Disconnect ==
    /\ Suspended
    /\ \E c \in Live(active_connections) :
        active_connections' =
            IF Iterating THEN Pop(active_connections, c)
            ELSE Compact(Pop(active_connections, c))
    /\ UNCHANGED <<pc, now, env, nPackets, locals, db, tx, opened, inbox, failed, iter,
                   cycle, runs>>
    /\ UNCHANGED arrival
    /\ UNCHANGED cams
    /\ UNCHANGED more

\* Time passes.  The clock is read when the cycle's system time is taken and
\* compared with it when a reset is written, so a tick is taken just before
\* either; a tick anywhere else commutes with the steps up to the next one.
Tick ==
    /\ pc \in {"resolve", "reset_branch"}
    /\ env.viewers = 0
    /\ now < MaxClock
    /\ now' = now + 1
    /\ UNCHANGED <<pc, env, nPackets, locals, db, tx, conns, iter, cycle, runs>>
    /\ UNCHANGED arrival
    /\ UNCHANGED cams
    /\ UNCHANGED more

Next ==
    \/ Bind \/ Recv \/ RecvRaises \/ Decode \/ Resolve
    \/ ResetBranch \/ ResetCommit \/ SessionBranch \/ SessionCommit \/ SessionId
    \/ SaveEvent \/ EventCommit \/ BuildMessage \/ ForNext \/ SendOk \/ SendRaises
    \/ StorageRaises \/ Except \/ Close
    \/ Connect \/ Disconnect \/ Tick

Spec == Init /\ [][Next]_vars

\* The ingestion task is scheduled whenever it can run: its synchronous steps
\* run to completion, and an awaited send completes or raises.  Nothing makes
\* a datagram arrive.
LoopStep ==
    \/ Bind \/ Decode \/ Resolve
    \/ ResetBranch \/ ResetCommit \/ SessionBranch \/ SessionCommit \/ SessionId
    \/ SaveEvent \/ EventCommit \/ BuildMessage \/ ForNext \/ SendOk \/ SendRaises
    \/ Except \/ Close

FairSpec == Init /\ [][Next]_vars /\ WF_vars(LoopStep)

\* The ingestion task is scheduled whenever it can run, but nothing makes an
\* awaited send complete or raise: the peer may never read.
LoopStepButSend ==
    \/ Bind \/ Decode \/ Resolve
    \/ ResetBranch \/ ResetCommit \/ SessionBranch \/ SessionCommit \/ SessionId
    \/ SaveEvent \/ EventCommit \/ BuildMessage \/ ForNext
    \/ Except \/ Close

SlowSubscriberSpec == Init /\ [][Next]_vars /\ WF_vars(LoopStepButSend)

\* ------------------------------------------------------- camera streams

T_A == <<"A">>
T_A_padded == <<" ", "A", " ">>
T_a == <<"a">>
T_demo == <<"d", "e", "m", "o", ":", "/", "/">>
T_demo_url == T_demo \o <<"c">>
T_rtsp_url == <<"r", "t", "s", "p", ":", "/", "/", "c">>

\* str.startswith
StartsWith(s, p) == Len(s) >= Len(p) /\ SubSeq(s, 1, Len(p)) = p

\* CameraSimulator.__init__ / RealCameraStream.__init__: no thread, no frame,
\* no capture, the stop event clear.
NewStream(kind, room_name) ==
    [kind |-> kind, room_name |-> Strip(room_name), _stop |-> FALSE,
     thread |-> NULL, cap |-> NULL, frame |-> NULL]

\* threading.Thread(target=...).start(): a thread about to enter the loop of
\* stream sid, with the loop's locals cap and frame.
NewThread(sid) == [sid |-> sid, pc |-> "top", cap |-> NULL, frame |-> NULL]

\* t and t.is_alive()
is_alive(t) == t # NULL /\ threads[t].pc # "done"

\* The threads inside the loop of stream sid.
Running(sid) == {t \in DOMAIN threads : threads[t].sid = sid /\ threads[t].pc # "done"}

\* cap.release() on capture c (nothing when there is none).
Released(c) == IF c = NULL THEN caps ELSE [caps EXCEPT ![c] = "released"]

\* cv2.imencode(".jpg", frame, ...) followed by buffer.tobytes().
Encode(image) == [format |-> "jpg", image |-> image]

\* `while not self._stop.is_set()` of either loop (lines 44 and 128-129).
LoopTop(t) ==
    /\ threads[t].pc = "top"
    /\ threads' = [threads EXCEPT ![t].cap = NULL,
                      ![t].pc = IF streams[threads[t].sid]._stop THEN "done"
                                ELSE IF streams[threads[t].sid].kind = "sim" THEN "generate"
                                ELSE "connect"]
    /\ UNCHANGED <<cam_env, streams, caps, frames, cameras, call, nCalls, published>>
    /\ UNCHANGED ingest
    /\ UNCHANGED more

\* CameraSimulator._generate_frames line 45: a new array of noise.
Generate(t) ==
    /\ threads[t].pc = "generate"
    /\ Len(frames) < MaxFrames
    /\ frames' = Append(frames, [complete |-> FALSE])
    /\ threads' = [threads EXCEPT ![t].frame = Len(frames) + 1, ![t].pc = "draw"]
    /\ UNCHANGED <<cam_env, streams, caps, cameras, call, nCalls, published>>
    /\ UNCHANGED ingest
    /\ UNCHANGED more

\* Lines 133-139: cv2.VideoCapture(url) returns a capture that is opened or not.
VideoCapture(t) ==
    /\ threads[t].pc = "connect"
    /\ Len(caps) < MaxOpens
    /\ \E status \in {"open", "failed"} :
        /\ caps' = Append(caps, status)
        /\ threads' = [threads EXCEPT ![t].cap = Len(caps) + 1,
                          ![t].pc = IF status = "open" THEN "register" ELSE "open_failed"]
    /\ UNCHANGED <<cam_env, streams, frames, cameras, call, nCalls, published>>
    /\ UNCHANGED ingest
    /\ UNCHANGED more

\* Lines 139-146: the capture did not open; release it, forget it, and sleep
\* reconnect_delay.
OpenFailed(t) ==
    /\ threads[t].pc = "open_failed"
    /\ caps' = Released(threads[t].cap)
    /\ threads' = [threads EXCEPT ![t].cap = NULL, ![t].pc = "backoff_open"]
    /\ UNCHANGED <<cam_env, streams, frames, cameras, call, nCalls, published>>
    /\ UNCHANGED ingest
    /\ UNCHANGED more

\* Line 147: the sleep of line 146 is over; `continue` passes through finally.
BackoffOpen(t) ==
    /\ threads[t].pc = "backoff_open"
    /\ threads' = [threads EXCEPT ![t].pc = "finally"]
    /\ UNCHANGED <<cam_env, streams, caps, frames, cameras, call, nCalls, published>>
    /\ UNCHANGED ingest
    /\ UNCHANGED more

\* Lines 149-150: with self._cap_lock: self.cap = cap.
Register(t) ==
    /\ threads[t].pc = "register"
    /\ streams' = [streams EXCEPT ![threads[t].sid].cap = threads[t].cap]
    /\ threads' = [threads EXCEPT ![t].pc = "inner"]
    /\ UNCHANGED <<cam_env, caps, frames, cameras, call, nCalls, published>>
    /\ UNCHANGED ingest
    /\ UNCHANGED more

\* Line 154: `while not self._stop.is_set()` of the read loop.
Inner(t) ==
    /\ threads[t].pc = "inner"
    /\ threads' = [threads EXCEPT ![t].pc =
                      IF streams[threads[t].sid]._stop THEN "finally" ELSE "read"]
    /\ UNCHANGED <<cam_env, streams, caps, frames, cameras, call, nCalls, published>>
    /\ UNCHANGED ingest
    /\ UNCHANGED more

\* A read that decodes into the buffer the slot refers to, when there is one.
Read_IntoSlotBuffer(t) ==
    /\ threads[t].pc = "read"
    /\ \/ /\ caps[threads[t].cap] = "open"
          /\ Len(frames) < MaxFrames
          /\ LET f == streams[threads[t].sid].frame
             IN  IF f = NULL
                 THEN /\ frames' = Append(frames, [complete |-> FALSE])
                      /\ threads' = [threads EXCEPT ![t].frame = Len(frames) + 1,
                                                    ![t].pc = "draw"]
                 ELSE /\ frames' = [frames EXCEPT ![f].complete = FALSE]
                      /\ threads' = [threads EXCEPT ![t].frame = f, ![t].pc = "draw"]
       \/ /\ threads' = [threads EXCEPT ![t].pc = "finally"]
          /\ UNCHANGED frames
    /\ UNCHANGED <<cam_env, streams, caps, cameras, call, nCalls, published>>
    /\ UNCHANGED ingest
    /\ UNCHANGED more

\* Lines 155-158: cap.read() returns a new frame from an open capture, or
\* fails (the source is lost, or the capture was released) and the loop breaks.
Read(t) ==
    /\ threads[t].pc = "read"
    /\ \/ /\ caps[threads[t].cap] = "open"
          /\ Len(frames) < MaxFrames
          /\ frames' = Append(frames, [complete |-> FALSE])
          /\ threads' = [threads EXCEPT ![t].frame = Len(frames) + 1, ![t].pc = "draw"]
       \/ /\ threads' = [threads EXCEPT ![t].pc = "finally"]
          /\ UNCHANGED frames
    /\ UNCHANGED <<cam_env, streams, caps, cameras, call, nCalls, published>>
    /\ UNCHANGED ingest
    /\ UNCHANGED more

\* Lines 47-61 and 160-181: the overlays are drawn into the loop's own buffer.
Draw(t) ==
    /\ threads[t].pc = "draw"
    /\ frames' = [frames EXCEPT ![threads[t].frame].complete = TRUE]
    /\ threads' = [threads EXCEPT ![t].pc = "publish"]
    /\ UNCHANGED <<cam_env, streams, caps, cameras, call, nCalls, published>>
    /\ UNCHANGED ingest
    /\ UNCHANGED more

\* A publication into a queue of one frame per subscriber: it waits until the
\* frame published before has been sent.
Publish_Queued(t) ==
    /\ threads[t].pc = "publish"
    /\ LET was == published[threads[t].sid]
       IN  was = <<>> \/ \E i \in DOMAIN feed.chunks : feed.chunks[i] = was[Len(was)]
    /\ streams' = [streams EXCEPT ![threads[t].sid].frame = threads[t].frame]
    /\ published' = [published EXCEPT ![threads[t].sid] = Append(@, threads[t].frame)]
    /\ threads' = [threads EXCEPT ![t].pc =
                      IF streams[threads[t].sid].kind = "sim" THEN "top" ELSE "inner"]
    /\ UNCHANGED <<cam_env, caps, frames, cameras, call, nCalls>>
    /\ UNCHANGED ingest
    /\ UNCHANGED more

\* Lines 63-67 and 183-187: with the frame lock, self.frame = frame; then the
\* short sleep and the next turn of the loop.
Publish(t) ==
    /\ threads[t].pc = "publish"
    /\ streams' = [streams EXCEPT ![threads[t].sid].frame = threads[t].frame]
    /\ published' = [published EXCEPT ![threads[t].sid] = Append(@, threads[t].frame)]
    /\ threads' = [threads EXCEPT ![t].pc =
                      IF streams[threads[t].sid].kind = "sim" THEN "top" ELSE "inner"]
    /\ UNCHANGED <<cam_env, caps, frames, cameras, call, nCalls>>
    /\ UNCHANGED ingest
    /\ UNCHANGED more

\* An exception inside the try block that nothing catches: the thread ends.
Raises_Uncaught(t) ==
    /\ threads[t].pc \in {"connect", "read", "draw"}
    /\ streams[threads[t].sid].kind = "real"
    /\ threads' = [threads EXCEPT ![t].pc = "done"]
    /\ UNCHANGED <<cam_env, streams, caps, frames, cameras, call, nCalls, published>>
    /\ UNCHANGED ingest
    /\ UNCHANGED more

\* Lines 189-190: an exception inside the try block is caught and printed.
Raises(t) ==
    /\ threads[t].pc \in {"connect", "read", "draw"}
    /\ streams[threads[t].sid].kind = "real"
    /\ threads' = [threads EXCEPT ![t].pc = "finally"]
    /\ UNCHANGED <<cam_env, streams, caps, frames, cameras, call, nCalls, published>>
    /\ UNCHANGED ingest
    /\ UNCHANGED more

\* Lines 193-197: finally, release the loop's capture if it has one.
FinallyRelease(t) ==
    /\ threads[t].pc = "finally"
    /\ caps' = Released(threads[t].cap)
    /\ threads' = [threads EXCEPT ![t].pc = "unregister"]
    /\ UNCHANGED <<cam_env, streams, frames, cameras, call, nCalls, published>>
    /\ UNCHANGED ingest
    /\ UNCHANGED more

\* Lines 198-203: with self._cap_lock: if self.cap is cap: self.cap = None;
\* then sleep reconnect_delay unless stop is set.
FinallyUnregister(t) ==
    /\ threads[t].pc = "unregister"
    /\ streams' = [streams EXCEPT ![threads[t].sid].cap =
                      IF @ = threads[t].cap THEN NULL ELSE @]
    /\ threads' = [threads EXCEPT ![t].pc =
                      IF streams[threads[t].sid]._stop THEN "top" ELSE "backoff"]
    /\ UNCHANGED <<cam_env, caps, frames, cameras, call, nCalls, published>>
    /\ UNCHANGED ingest
    /\ UNCHANGED more

\* Line 203: the sleep is over.
Backoff(t) ==
    /\ threads[t].pc = "backoff"
    /\ threads' = [threads EXCEPT ![t].pc = "top"]
    /\ UNCHANGED <<cam_env, streams, caps, frames, cameras, call, nCalls, published>>
    /\ UNCHANGED ingest
    /\ UNCHANGED more

\* ------------------------------------------------- calls on one stream

\* A call can begin: the caller is between calls.
CanCall(mode) == cam_env.mode = mode /\ call.pc = "done" /\ nCalls < MaxCalls

\* start() on stream sid of ss (lines 25-34 and 99-108): nothing if
\* self.thread is alive, else clear the stop event and start a new thread.
StreamsAfterStart(ss, sid) ==
    IF is_alive(ss[sid].thread) THEN ss
    ELSE [ss EXCEPT ![sid]._stop = FALSE, ![sid].thread = Len(threads) + 1]

ThreadsAfterStart(ss, sid) ==
    IF is_alive(ss[sid].thread) THEN threads
    ELSE Append(threads, NewThread(sid))

\* stream.start()
start(sid) ==
    /\ CanCall("stream")
    /\ streams' = StreamsAfterStart(streams, sid)
    /\ threads' = ThreadsAfterStart(streams, sid)
    /\ call' = Call("start", "done", sid, <<>>)
    /\ nCalls' = nCalls + 1
    /\ UNCHANGED <<cam_env, caps, frames, cameras, published>>
    /\ UNCHANGED ingest
    /\ UNCHANGED more

\* stream.stop() is entered.
stop(sid) ==
    /\ CanCall("stream")
    /\ call' = Call("stop", "set", sid, <<>>)
    /\ nCalls' = nCalls + 1
    /\ UNCHANGED <<cam_env, streams, threads, caps, frames, cameras, published>>
    /\ UNCHANGED ingest
    /\ UNCHANGED more

\* Lines 37 and 111: self._stop.set().
StopSet ==
    /\ call.pc = "set"
    /\ streams' = [streams EXCEPT ![call.sid]._stop = TRUE]
    /\ call' = [call EXCEPT !.pc = "release"]
    /\ UNCHANGED <<cam_env, threads, caps, frames, cameras, nCalls, published>>
    /\ UNCHANGED ingest
    /\ UNCHANGED more

\* Lines 114-120 (RealCameraStream only): with self._cap_lock, release
\* self.cap if there is one and set it to None.
StopRelease ==
    /\ call.pc = "release"
    /\ IF streams[call.sid].kind = "real"
       THEN /\ caps' = Released(streams[call.sid].cap)
            /\ streams' = [streams EXCEPT ![call.sid].cap = NULL]
       ELSE UNCHANGED <<caps, streams>>
    /\ call' = [call EXCEPT !.pc = "join"]
    /\ UNCHANGED <<cam_env, threads, frames, cameras, nCalls, published>>
    /\ UNCHANGED ingest
    /\ UNCHANGED more

\* A join that waits for the thread however long it takes.
Join_Unbounded(t) == threads[t].pc = "done"

\* t.join(timeout=...) returns: the thread has ended, or the timeout ran out.
Join(t) ==
    \/ threads[t].pc = "done"
    \/ threads[t].pc # "done"

\* Lines 38-41 and 122-125: t = self.thread; join it if it is alive; then
\* self.thread = None.
StopJoin ==
    /\ call.pc = "join"
    /\ is_alive(streams[call.sid].thread) => Join(streams[call.sid].thread)
    /\ streams' = [streams EXCEPT ![call.sid].thread = NULL]
    /\ call' = [call EXCEPT !.pc = IF call.op = "shutdown" THEN "next" ELSE "done"]
    /\ UNCHANGED <<cam_env, threads, caps, frames, cameras, nCalls, published>>
    /\ UNCHANGED ingest
    /\ UNCHANGED more

\* stream.get_frame() is entered.
get_frame(sid) ==
    /\ CanCall("stream")
    /\ call' = Call("get_frame", "copy", sid, <<>>)
    /\ nCalls' = nCalls + 1
    /\ UNCHANGED <<cam_env, streams, threads, caps, frames, cameras, published>>
    /\ UNCHANGED ingest
    /\ UNCHANGED more

\* Lines 74-77 and 210-213: with the frame lock, None if the slot is empty,
\* else a copy of the buffer the slot refers to.
GetFrameCopy ==
    /\ call.pc = "copy"
    /\ LET f == streams[call.sid].frame
       IN  call' = IF f = NULL
                   THEN [call EXCEPT !.pc = "done", !.result = NoBytes,
                                     !.at = Len(published[call.sid])]
                   ELSE [call EXCEPT !.pc = "encode",
                                     !.copy = [id |-> f, complete |-> frames[f].complete],
                                     !.at = Len(published[call.sid])]
    /\ UNCHANGED <<cam_env, streams, threads, caps, frames, cameras, nCalls, published>>
    /\ UNCHANGED ingest
    /\ UNCHANGED more

\* Lines 79-80 and 215-216: the copy is encoded outside the lock.
GetFrameEncode ==
    /\ call.pc = "encode"
    /\ call' = [call EXCEPT !.pc = "done", !.result = Encode(call.copy)]
    /\ UNCHANGED <<cam_env, streams, threads, caps, frames, cameras, nCalls, published>>
    /\ UNCHANGED ingest
    /\ UNCHANGED more

\* stream.has_frame(), lines 69-71 and 205-207.
has_frame(sid) ==
    /\ CanCall("stream")
    /\ call' = [Call("has_frame", "done", sid, <<>>) EXCEPT
                    !.result = (streams[sid].frame # NULL)]
    /\ nCalls' = nCalls + 1
    /\ UNCHANGED <<cam_env, streams, threads, caps, frames, cameras, published>>
    /\ UNCHANGED ingest
    /\ UNCHANGED more

\* ------------------------------------------------- the camera manager

RoomNames == {T_A, T_A_padded, T_a}
Urls == {<<>>, T_demo_url, T_rtsp_url}

\* A key that is the room name as given.
_key_Raw(room_name) == room_name

\* CameraManager._key
_key(room_name) == Strip(room_name)

\* key in self.cameras
InCameras(key) == \E p \in cameras : p[1] = key

\* self.cameras.get(key)
CameraOf(key) ==
    IF InCameras(key) THEN (CHOOSE p \in cameras : p[1] = key)[2] ELSE NULL

\* Lines 238-245: the variant add_camera constructs, or the ValueError.
Variant(rtsp_url) ==
    IF rtsp_url # <<>> /\ StartsWith(rtsp_url, T_demo) THEN "sim"
    ELSE IF cam_env.use_simulation THEN "sim"
    ELSE IF rtsp_url = <<>> THEN "ValueError"
    ELSE "real"

\* CameraManager.add_camera, all of it under the manager's lock: nothing for
\* a key that is in the map; else construct the variant (or raise ValueError),
\* start it and put it in the map.
add_camera(room_name, rtsp_url) ==
    /\ CanCall("manager")
    /\ nCalls' = nCalls + 1
    /\ LET key == _key(room_name)
           kind == Variant(rtsp_url)
           ss == Append(streams, NewStream(kind, key))
       IN  IF InCameras(key)
           THEN /\ call' = [Call("add_camera", "done", CameraOf(key), key)
                                EXCEPT !.result = "exists"]
                /\ UNCHANGED <<streams, threads, cameras, published>>
           ELSE IF kind = "ValueError"
           THEN /\ call' = [Call("add_camera", "done", NULL, key)
                                EXCEPT !.result = "ValueError"]
                /\ UNCHANGED <<streams, threads, cameras, published>>
           ELSE /\ streams' = StreamsAfterStart(ss, Len(ss))
                /\ threads' = ThreadsAfterStart(ss, Len(ss))
                /\ published' = Append(published, <<>>)
                /\ cameras' = cameras \cup {<<key, Len(ss)>>}
                /\ call' = [Call("add_camera", "done", Len(ss), key)
                                EXCEPT !.result = "added"]
    /\ UNCHANGED <<cam_env, caps, frames>>
    /\ UNCHANGED ingest
    /\ UNCHANGED more

\* A remove_camera that stops the key's stream and leaves it in the map.
remove_camera_KeepsKey(room_name) ==
    /\ CanCall("manager")
    /\ nCalls' = nCalls + 1
    /\ LET key == _key(room_name)
           cam == CameraOf(key)
       IN  /\ cameras' = cameras
           /\ call' = IF cam = NULL THEN Call("remove_camera", "done", NULL, key)
                      ELSE Call("remove_camera", "set", cam, key)
    /\ UNCHANGED <<cam_env, streams, threads, caps, frames, published>>
    /\ UNCHANGED ingest
    /\ UNCHANGED more

\* CameraManager.remove_camera lines 252-255: pop the key under the lock; the
\* stream, if there was one, is then stopped (StopSet, StopRelease, StopJoin).
remove_camera(room_name) ==
    /\ CanCall("manager")
    /\ nCalls' = nCalls + 1
    /\ LET key == _key(room_name)
           cam == CameraOf(key)
       IN  /\ cameras' = {p \in cameras : p[1] # key}
           /\ call' = IF cam = NULL THEN Call("remove_camera", "done", NULL, key)
                      ELSE Call("remove_camera", "set", cam, key)
    /\ UNCHANGED <<cam_env, streams, threads, caps, frames, published>>
    /\ UNCHANGED ingest
    /\ UNCHANGED more

\* CameraManager.get_frame lines 259-262: look the key up under the lock; None
\* without a stream, else the stream's get_frame (GetFrameCopy, GetFrameEncode).
manager_get_frame(room_name) ==
    /\ CanCall("manager")
    /\ nCalls' = nCalls + 1
    /\ LET key == _key(room_name)
           cam == CameraOf(key)
       IN  call' = IF cam = NULL THEN Call("get_frame", "done", NULL, key)
                   ELSE Call("get_frame", "copy", cam, key)
    /\ UNCHANGED <<cam_env, streams, threads, caps, frames, cameras, published>>
    /\ UNCHANGED ingest
    /\ UNCHANGED more

\* CameraManager.has_frame lines 265-268.
manager_has_frame(room_name) ==
    /\ CanCall("manager")
    /\ nCalls' = nCalls + 1
    /\ LET key == _key(room_name)
           cam == CameraOf(key)
       IN  call' = [Call("has_frame", "done", cam, key) EXCEPT
                        !.result = IF cam = NULL THEN FALSE
                                   ELSE streams[cam].frame # NULL]
    /\ UNCHANGED <<cam_env, streams, threads, caps, frames, cameras, published>>
    /\ UNCHANGED ingest
    /\ UNCHANGED more

\* list(self.cameras.values()): the streams of the map in the order their
\* keys were inserted, which is the order in which they were constructed.
RECURSIVE InOrder(_)
InOrder(sids) ==
    IF sids = {} THEN <<>>
    ELSE LET first == CHOOSE x \in sids : \A y \in sids : x <= y
         IN  <<first>> \o InOrder(sids \ {first})

Values(map) == InOrder({p[2] : p \in map})

\* CameraManager.shutdown lines 275-277: under the lock, take the list of the
\* streams and clear the map; the loop over the list follows.
shutdown ==
    /\ CanCall("manager")
    /\ nCalls' = nCalls + 1
    /\ cameras' = {}
    /\ todo' = Values(cameras)
    /\ call' = Call("shutdown", "next", NULL, <<>>)
    /\ UNCHANGED <<cam_env, streams, threads, caps, frames, published>>
    /\ UNCHANGED <<lock, other, feed, probe>>
    /\ UNCHANGED ingest

\* Line 278: `for cam in cams`: the next stream's stop() is entered (StopSet,
\* StopRelease, StopJoin), or the list is exhausted and shutdown returns.
ShutdownNext ==
    /\ call.op = "shutdown" /\ call.pc = "next"
    /\ IF todo = <<>>
       THEN call' = [call EXCEPT !.pc = "done"] /\ UNCHANGED todo
       ELSE call' = [call EXCEPT !.sid = Head(todo), !.pc = "set"] /\ todo' = Tail(todo)
    /\ UNCHANGED <<cam_env, streams, threads, caps, frames, cameras, nCalls, published>>
    /\ UNCHANGED <<lock, other, feed, probe>>
    /\ UNCHANGED ingest

\* An exception out of cam.stop() that leaves shutdown.
ShutdownExcept_Propagates ==
    /\ call.op = "shutdown" /\ call.pc \in {"release", "join"}
    /\ call' = [call EXCEPT !.pc = "done"]
    /\ UNCHANGED <<cam_env, streams, threads, caps, frames, cameras, nCalls, published>>
    /\ UNCHANGED more
    /\ UNCHANGED ingest

\* Lines 279-282: an exception out of cam.stop(), raised after the stop event
\* was set (the first statement of stop), is caught and the loop goes on.
ShutdownExcept ==
    /\ call.op = "shutdown" /\ call.pc \in {"release", "join"}
    /\ call' = [call EXCEPT !.pc = "next"]
    /\ UNCHANGED <<cam_env, streams, threads, caps, frames, cameras, nCalls, published>>
    /\ UNCHANGED more
    /\ UNCHANGED ingest

\* -------------------------------------------- the camera specifications

\* The ingestion side, not started.
IngestOff ==
    /\ env = [arrivals |-> {}, viewers |-> 0, stores |-> {}, resolved |-> {}]
    /\ pc = "bind" /\ now = 1 /\ nPackets = 0
    /\ data = NoDatagram /\ addr = "" /\ decoded = NoDecode
    /\ room = NULL /\ bed = NULL /\ system_time = NULL /\ event_type = <<>>
    /\ cs = NULL /\ call_session_id = NULL /\ event_id = NULL
    /\ db_call_sessions = <<>> /\ db_events = <<>>
    /\ tx_call_sessions = <<>> /\ tx_events = <<>>
    /\ active_connections = <<>> /\ opened = 0
    /\ inbox = [c \in ConnIds |-> <<>>] /\ failed = {}
    /\ it_used = 0 /\ it_pos = 0 /\ ws = NULL /\ dead = <<>> /\ bstart = {}
    /\ sess0 = <<>> /\ ev0 = <<>> /\ fault = FALSE
    /\ run = [b \in BedIds |-> <<>>]
    /\ runS = [b \in BedIds |-> 0]
    /\ runE = [b \in BedIds |-> 0]
    /\ arrival = <<>>

\* The camera side with nothing constructed and no call made.
CamEmpty ==
    /\ threads = <<>> /\ caps = <<>> /\ frames = <<>>
    /\ cameras = {}
    /\ call = NoCall /\ nCalls = 0

\* One stream of either variant, constructed and driven directly.
StreamInit ==
    /\ IngestOff
    /\ MoreOff
    /\ CamEmpty
    /\ cam_env = [mode |-> "stream", use_simulation |-> FALSE]
    /\ \E kind \in {"sim", "real"} : streams = <<NewStream(kind, T_A_padded)>>
    /\ published = << <<>> >>

\* An empty CameraManager, constructed with or without use_simulation.
ManagerInit ==
    /\ IngestOff
    /\ MoreOff
    /\ CamEmpty
    /\ \E u \in BOOLEAN : cam_env = [mode |-> "manager", use_simulation |-> u]
    /\ streams = <<>>
    /\ published = <<>>

\* A step of the loop that thread t runs.
LoopStepOf(t) ==
    \/ LoopTop(t) \/ Generate(t) \/ VideoCapture(t) \/ OpenFailed(t) \/ BackoffOpen(t)
    \/ Register(t) \/ Inner(t) \/ Read(t) \/ Draw(t) \/ Publish(t) \/ Raises(t)
    \/ FinallyRelease(t) \/ FinallyUnregister(t) \/ Backoff(t)

\* A step of the caller inside a call.
CallStep == StopSet \/ StopRelease \/ StopJoin \/ GetFrameCopy \/ GetFrameEncode

StreamNext ==
    \/ \E t \in DOMAIN threads : LoopStepOf(t)
    \/ \E sid \in DOMAIN streams : start(sid)
    \/ \E sid \in DOMAIN streams : stop(sid)
    \/ \E sid \in DOMAIN streams : get_frame(sid)
    \/ \E sid \in DOMAIN streams : has_frame(sid)
    \/ CallStep

StreamSpec == StreamInit /\ [][StreamNext]_vars

\* The caller runs on: a call that can take its next step takes it.  Nothing
\* is assumed of the loops, which may sit in a read or a connect for ever.
StopFairSpec == StreamInit /\ [][StreamNext]_vars /\ WF_vars(CallStep)

\* Every loop runs on: a connect, a read and a sleep all return in the end.
\* Nothing is assumed of the caller, who may never call again.
LoopFairSpec ==
    /\ StreamInit /\ [][StreamNext]_vars
    /\ \A t \in 1..MaxCalls : WF_vars(t \in DOMAIN threads /\ LoopStepOf(t))

ManagerNext ==
    \/ \E t \in DOMAIN threads : LoopStepOf(t)
    \/ \E room_name \in RoomNames, rtsp_url \in Urls : add_camera(room_name, rtsp_url)
    \/ \E room_name \in RoomNames : remove_camera(room_name)
    \/ \E room_name \in RoomNames : manager_get_frame(room_name)
    \/ \E room_name \in RoomNames : manager_has_frame(room_name)
    \/ shutdown \/ ShutdownNext \/ ShutdownExcept
    \/ CallStep

ManagerSpec == ManagerInit /\ [][ManagerNext]_vars

\* ------------------------------------- the manager's lock and two callers
\* The manager's methods with `with self._lock` made explicit, called by two
\* threads: the first caller works on the room key "A", the second on "a".

\* What the statements under the lock do to the map, the streams and the
\* threads: add_camera (lines 235-248, with a source address and without
\* simulation), remove_camera (line 254), get_frame (line 261).
Adds(op, key) == op = "add_camera" /\ ~InCameras(key)

MapAfter(op, key) ==
    IF op = "remove_camera" THEN {p \in cameras : p[1] # key}
    ELSE IF Adds(op, key) THEN cameras \cup {<<key, Len(streams) + 1>>}
    ELSE cameras

StreamsAfter(op, key) ==
    IF Adds(op, key)
    THEN StreamsAfterStart(Append(streams, NewStream("real", key)), Len(streams) + 1)
    ELSE streams

ThreadsAfter(op, key) ==
    IF Adds(op, key)
    THEN ThreadsAfterStart(Append(streams, NewStream("real", key)), Len(streams) + 1)
    ELSE threads

PublishedAfter(op, key) == IF Adds(op, key) THEN Append(published, <<>>) ELSE published

\* The stream the method goes on with once the lock is released.
CamAfter(op, key) == IF op = "add_camera" THEN NULL ELSE CameraOf(key)

ManagerOps == {"add_camera", "remove_camera", "get_frame"}

\* The first caller enters a method and reaches `with self._lock`.
Enter(op) ==
    /\ CanCall("locks") /\ nCalls < MaxLockCalls
    /\ call' = Call(op, "lock", NULL, T_A)
    /\ nCalls' = nCalls + 1
    /\ UNCHANGED <<cam_env, streams, threads, caps, frames, cameras, published>>
    /\ UNCHANGED more
    /\ UNCHANGED ingest

\* self._lock.__enter__: the caller has the lock once it is free.
Acquire ==
    /\ call.pc = "lock"
    /\ lock = NULL
    /\ lock' = 1
    /\ call' = [call EXCEPT !.pc = "locked"]
    /\ UNCHANGED <<cam_env, streams, threads, caps, frames, cameras, nCalls, published>>
    /\ UNCHANGED <<todo, other, feed, probe>>
    /\ UNCHANGED ingest

\* The statements under the lock.
Locked ==
    /\ call.pc = "locked"
    /\ cameras' = MapAfter(call.op, call.key)
    /\ streams' = StreamsAfter(call.op, call.key)
    /\ threads' = ThreadsAfter(call.op, call.key)
    /\ published' = PublishedAfter(call.op, call.key)
    /\ call' = [call EXCEPT !.sid = CamAfter(call.op, call.key), !.pc = "unlock"]
    /\ UNCHANGED <<cam_env, caps, frames, nCalls>>
    /\ UNCHANGED more
    /\ UNCHANGED ingest

\* A with block that does not end before cam.stop() or cam.get_frame().
Release_KeepsLock ==
    /\ call.pc = "unlock"
    /\ lock' = IF call.sid = NULL THEN NULL ELSE lock
    /\ call' = [call EXCEPT !.pc = IF call.sid = NULL THEN "done"
                                   ELSE IF call.op = "remove_camera" THEN "set"
                                   ELSE "copy"]
    /\ UNCHANGED <<cam_env, streams, threads, caps, frames, cameras, nCalls, published>>
    /\ UNCHANGED <<todo, other, feed, probe>>
    /\ UNCHANGED ingest

\* The with block ends (lines 249, 254, 261): the lock is released, and the
\* method goes on to cam.stop() (line 256) or cam.get_frame() (line 262) if it
\* has a stream, else returns.
Release ==
    /\ call.pc = "unlock"
    /\ lock' = NULL
    /\ call' = [call EXCEPT !.pc = IF call.sid = NULL THEN "done"
                                   ELSE IF call.op = "remove_camera" THEN "set"
                                   ELSE "copy"]
    /\ UNCHANGED <<cam_env, streams, threads, caps, frames, cameras, nCalls, published>>
    /\ UNCHANGED <<todo, other, feed, probe>>
    /\ UNCHANGED ingest

\* The second caller enters a method for the key "a".
OtherEnter(op) ==
    /\ cam_env.mode = "locks"
    /\ other.pc = "done" /\ other.n < MaxLockCalls
    /\ other' = [op |-> op, pc |-> "lock", sid |-> NULL, n |-> other.n + 1,
                  during |-> "none"]
    /\ UNCHANGED <<todo, lock, feed, probe>>
    /\ UNCHANGED cams
    /\ UNCHANGED ingest

\* It has the lock once the lock is free; `during` keeps where the first
\* caller stood at that moment.
OtherAcquire ==
    /\ other.pc = "lock"
    /\ lock = NULL
    /\ lock' = 2
    /\ other' = [other EXCEPT !.pc = "locked", !.during = call.pc]
    /\ UNCHANGED <<todo, feed, probe>>
    /\ UNCHANGED cams
    /\ UNCHANGED ingest

OtherLocked ==
    /\ other.pc = "locked"
    /\ cameras' = MapAfter(other.op, T_a)
    /\ streams' = StreamsAfter(other.op, T_a)
    /\ threads' = ThreadsAfter(other.op, T_a)
    /\ published' = PublishedAfter(other.op, T_a)
    /\ other' = [other EXCEPT !.sid = CamAfter(other.op, T_a), !.pc = "unlock"]
    /\ UNCHANGED <<cam_env, caps, frames, call, nCalls>>
    /\ UNCHANGED <<todo, lock, feed, probe>>
    /\ UNCHANGED ingest

OtherRelease ==
    /\ other.pc = "unlock"
    /\ lock' = NULL
    /\ other' = [other EXCEPT !.pc = IF other.sid = NULL THEN "done" ELSE "outside"]
    /\ UNCHANGED <<todo, feed, probe>>
    /\ UNCHANGED cams
    /\ UNCHANGED ingest

\* Outside the lock the second caller's own stream is stopped (lines 110-125)
\* or asked for its frame (lines 209-216); that stream is not wedged.
OtherOutside ==
    /\ other.pc = "outside"
    /\ IF other.op = "remove_camera"
       THEN /\ streams' = [streams EXCEPT ![other.sid]._stop = TRUE,
                                           ![other.sid].cap = NULL,
                                           ![other.sid].thread = NULL]
            /\ caps' = Released(streams[other.sid].cap)
       ELSE UNCHANGED <<streams, caps>>
    /\ other' = [other EXCEPT !.pc = "done"]
    /\ UNCHANGED <<cam_env, threads, frames, cameras, call, nCalls, published>>
    /\ UNCHANGED <<todo, lock, feed, probe>>
    /\ UNCHANGED ingest

\* A manager that does not simulate, with a live stream registered for "A"
\* and started, with or without one for "a", and no call begun.
LockInit ==
    /\ IngestOff
    /\ MoreOff
    /\ cam_env = [mode |-> "locks", use_simulation |-> FALSE]
    /\ \/ /\ streams = <<[NewStream("real", T_A) EXCEPT !.thread = 1]>>
          /\ threads = <<NewThread(1)>>
          /\ cameras = {<<T_A, 1>>}
          /\ published = << <<>> >>
       \/ /\ streams = <<[NewStream("real", T_A) EXCEPT !.thread = 1],
                         [NewStream("real", T_a) EXCEPT !.thread = 2]>>
          /\ threads = <<NewThread(1), NewThread(2)>>
          /\ cameras = {<<T_A, 1>>, <<T_a, 2>>}
          /\ published = << <<>>, <<>> >>
    /\ caps = <<>> /\ frames = <<>>
    /\ call = NoCall /\ nCalls = 0

\* The loops followed here are those of the first caller's stream; the loop
\* of the second caller's stream takes no part in what the lock decides.
LockNext ==
    \/ \E t \in DOMAIN threads : threads[t].sid = 1 /\ LoopStepOf(t)
    \/ \E op \in ManagerOps : Enter(op)
    \/ Acquire \/ Locked \/ Release
    \/ CallStep
    \/ \E op \in ManagerOps : OtherEnter(op)
    \/ OtherAcquire \/ OtherLocked \/ OtherRelease \/ OtherOutside

LockSpec == LockInit /\ [][LockNext]_vars

\* A caller that waits for the lock gets it if it is free again and again,
\* the statements under the lock run on, and the second caller's own stream
\* answers.  Nothing is assumed of the first caller's stream: its stop(), its
\* get_frame() and its loop may take for ever.
LockFairSpec ==
    /\ LockInit /\ [][LockNext]_vars
    /\ SF_vars(Acquire) /\ WF_vars(Locked \/ Release)
    /\ SF_vars(OtherAcquire) /\ WF_vars(OtherLocked \/ OtherRelease \/ OtherOutside)

\* ------------------------------------------------ the decoder, byte by byte

\* A byte is a number in 0..255 and a str is the sequence of its characters'
\* codes: payload.decode("latin1", "ignore") maps each byte to the character
\* of the same code.
HexDigits == <<"0","1","2","3","4","5","6","7","8","9","a","b","c","d","e","f">>

\* ord(c) of the characters the literals are written with, and the codes of
\* a literal.
Ord(c) ==
    IF c \in Range(UpperAlpha) THEN 64 + IndexIn(UpperAlpha, c)
    ELSE IF c \in Range(LowerAlpha) THEN 96 + IndexIn(LowerAlpha, c)
    ELSE IF c \in Digits THEN 47 + IndexIn(HexDigits, c)
    ELSE CASE c = " " -> 32 [] c = "#" -> 35 [] c = "-" -> 45 [] c = "." -> 46
           [] c = ":" -> 58 [] c = "_" -> 95
Codes(s) == [i \in DOMAIN s |-> Ord(s[i])]

\* The character at position p of text (positions from 1), or -1 outside it.
at(text, p) == IF p \in DOMAIN text THEN text[p] ELSE -1

\* The classes of the patterns, over the characters latin1 yields: \d, \s
\* (and what str.strip and str.split take for whitespace), \w,
\* [A-Za-z0-9\s\-] and [A-Z0-9\-\_].
InClass(cls, b) ==
    CASE cls = "d" -> b \in 48..57
      [] cls = "s" -> b \in {9, 10, 11, 12, 13, 28, 29, 30, 31, 32, 133, 160}
      [] cls = "w" -> b \in (48..57) \cup (65..90) \cup (97..122)
                            \cup {95, 170, 178, 179, 181, 185, 186, 188, 189, 190}
                            \cup ((192..255) \ {215, 247})
      [] cls = "label" -> b \in (48..57) \cup (65..90) \cup (97..122)
                            \cup {45, 9, 10, 11, 12, 13, 28, 29, 30, 31, 32, 133, 160}
      [] cls = "device" -> b \in (48..57) \cup (65..90) \cup {45, 95}

\* The position after the longest run of characters of a class that begins
\* at p, the run cut at max characters.
RunEnd(text, p, cls, max) ==
    CHOOSE q \in p..(p + max) :
        /\ \A r \in p..(q - 1) : InClass(cls, at(text, r))
        /\ q = p + max \/ ~InClass(cls, at(text, q))

\* \b at position p: between a word character and something that is not one.
WordBoundary(text, p) == InClass("w", at(text, p - 1)) # InClass("w", at(text, p))

\* str.lower() on latin1 characters.
lower_ch(b) == IF b \in (65..90) \cup ((192..222) \ {215}) THEN b + 32 ELSE b
lower(s) == [i \in DOMAIN s |-> lower_ch(s[i])]

\* The literal lit, ignoring case, stands at position i of text.
MatchesAt(text, i, lit) ==
    /\ i >= 1 /\ i + Len(lit) - 1 <= Len(text)
    /\ \A k \in DOMAIN lit : lower_ch(text[i + k - 1]) = lower_ch(lit[k])

\* str.find: the first position at which lit stands in text, 0 if none.
find(text, lit) ==
    LET at_i == {i \in 1..(Len(text) - Len(lit) + 1) : SubSeq(text, i, i + Len(lit) - 1) = lit}
    IN  IF at_i = {} THEN 0 ELSE CHOOSE i \in at_i : \A j \in at_i : i <= j

\* str.strip().
strip(s) ==
    LET keep == {i \in DOMAIN s : ~InClass("s", s[i])}
    IN  IF keep = {} THEN <<>>
        ELSE SubSeq(s, CHOOSE i \in keep : \A j \in keep : i <= j,
                       CHOOSE i \in keep : \A j \in keep : i >= j)

\* Lines 11-12: s.replace("\x00", "").strip().
_cleanup_ascii_block(s) == strip(SelectSeq(s, LAMBDA b : b # 0))

\* str.split()[0] of a str: its first run of characters that are not
\* whitespace.
split_first(s) ==
    LET t == strip(s)
        n == CHOOSE n \in 0..Len(t) :
                /\ \A r \in 1..n : ~InClass("s", t[r])
                /\ n = Len(t) \/ InClass("s", t[n + 1])
    IN  SubSeq(t, 1, n)

\* format(n, "0w"): the decimal digits of n, zero-padded to at least w.
RECURSIVE Decimal(_)
Decimal(n) == IF n < 10 THEN <<48 + n>> ELSE Append(Decimal(n \div 10), 48 + (n % 10))
ZeroPadded(n, w) ==
    LET d == Decimal(n) IN [i \in 1..(IF w > Len(d) THEN w - Len(d) ELSE 0) |-> 48] \o d

T_dash == <<"-">>
T_colon == <<":">>
T_space == <<" ">>
T_NoTimestamp ==
    <<"0","0","0","0","-","0","0","-","0","0"," ","0","0",":","0","0",":","0","0">>

\* A timestamp whose year is always 2000 + yy.
_parse_timestamp_AlwaysCentury(ts_bytes) ==
    IF Len(ts_bytes) < 6 THEN Codes(T_NoTimestamp)
    ELSE ZeroPadded(2000 + ts_bytes[1], 4) \o Codes(T_dash) \o ZeroPadded(ts_bytes[2], 2)
            \o Codes(T_dash) \o ZeroPadded(ts_bytes[3], 2) \o Codes(T_space)
            \o ZeroPadded(ts_bytes[4], 2) \o Codes(T_colon) \o ZeroPadded(ts_bytes[5], 2)
            \o Codes(T_colon) \o ZeroPadded(ts_bytes[6], 2)

\* Lines 4-9.
_parse_timestamp(ts_bytes) ==
    IF Len(ts_bytes) < 6 THEN Codes(T_NoTimestamp)
    ELSE LET yy == ts_bytes[1]
             year == IF yy < 100 THEN 2000 + yy ELSE yy
         IN  ZeroPadded(year, 4) \o Codes(T_dash) \o ZeroPadded(ts_bytes[2], 2)
                \o Codes(T_dash) \o ZeroPadded(ts_bytes[3], 2) \o Codes(T_space)
                \o ZeroPadded(ts_bytes[4], 2) \o Codes(T_colon) \o ZeroPadded(ts_bytes[5], 2)
                \o Codes(T_colon) \o ZeroPadded(ts_bytes[6], 2)

T_bed == <<"b","e","d">>
T_no == <<"n","o">>
T_BedNo == <<"B","e","d"," ","N","o"," ">>
T_room == <<"r","o","o","m">>
T_rm == <<"r","m">>

\* Where \s*[-:]?\s* ends when it begins at p: the whitespace, one '-' or
\* ':' if there is one, the whitespace.
SeparatorEnd(text, p) ==
    LET c == RunEnd(text, p, "s", Len(text))
        d == IF at(text, c) \in {45, 58} THEN c + 1 ELSE c
    IN  RunEnd(text, d, "s", Len(text))

\* Where \s*(No\.?|NO\.?|#)?\s*[-:]?\s* ends when it begins at p.  Nothing
\* of it can match a digit and \d{1,4} must follow, so each part takes all it
\* can.
MarkerEnd(text, p) ==
    LET a == RunEnd(text, p, "s", Len(text))
        b == IF MatchesAt(text, a, Codes(T_no))
             THEN (IF at(text, a + 2) = 46 THEN a + 3 ELSE a + 2)
             ELSE IF at(text, a) = 35 THEN a + 1 ELSE a
    IN  SeparatorEnd(text, b)

\* (\d{1,4})\b at p: one to four digits with a word boundary behind them;
\* the position after them, 0 if there is no match.
NumberEnd(text, p) ==
    LET q == RunEnd(text, p, "d", 5)
    IN  IF q > p /\ q - p <= 4 /\ WordBoundary(text, q) THEN q ELSE 0

\* The first pattern of _extract_bed matches with its BED at position i:
\* the positions of group 3, <<0, 0>> if it does not.
BedNoAt(text, i) ==
    IF WordBoundary(text, i) /\ MatchesAt(text, i, Codes(T_bed))
    THEN LET p == MarkerEnd(text, i + 3)
             q == NumberEnd(text, p)
         IN  IF q # 0 THEN <<p, q>> ELSE <<0, 0>>
    ELSE <<0, 0>>

\* The second pattern matches from position i: the position after the match,
\* 0 if it does not.  The span of 1 to 40 characters takes as many as it can
\* and gives back until BED, separator and number follow.
BedSpanAt(text, i) ==
    LET js == {j \in (i + 1)..RunEnd(text, i, "label", 40) :
                    /\ MatchesAt(text, j, Codes(T_bed))
                    /\ NumberEnd(text, SeparatorEnd(text, j + 3)) # 0}
    IN  IF WordBoundary(text, i) /\ js # {}
        THEN NumberEnd(text, SeparatorEnd(text, 3 + CHOOSE j \in js : \A k \in js : j >= k))
        ELSE 0

\* re.search: the least position of text at which a match begins, 0 if none.
First(starts) == IF starts = {} THEN 0 ELSE CHOOSE i \in starts : \A j \in starts : i <= j

\* Lines 14-32.
_extract_bed(ascii_payload) ==
    LET m == First({i \in DOMAIN ascii_payload : BedNoAt(ascii_payload, i) # <<0, 0>>})
        m2 == First({i \in DOMAIN ascii_payload : BedSpanAt(ascii_payload, i) # 0})
    IN  IF m # 0
        THEN Codes(T_BedNo) \o SubSeq(ascii_payload, BedNoAt(ascii_payload, m)[1],
                                      BedNoAt(ascii_payload, m)[2] - 1)
        ELSE IF m2 # 0
        THEN _cleanup_ascii_block(SubSeq(ascii_payload, m2, BedSpanAt(ascii_payload, m2) - 1))
        ELSE Codes(T_UNKNOWN)

\* (ROOM|RM)\s*\d{0,4})\b with its ROOM or RM at position j: the position
\* after the match, 0 if there is none.  The whitespace and then the digits
\* take all they can and give back one character at a time until a word
\* boundary follows, so the match ends at the last such position.
RoomTailEnd(text, j) ==
    LET e0 == IF MatchesAt(text, j, Codes(T_room)) THEN j + 4
              ELSE IF MatchesAt(text, j, Codes(T_rm)) THEN j + 2 ELSE 0
        s == RunEnd(text, e0, "s", Len(text))
        d == RunEnd(text, s, "d", 4)
        ends == {e \in e0..d : WordBoundary(text, e)}
    IN  IF e0 = 0 \/ ends = {} THEN 0 ELSE CHOOSE e \in ends : \A f \in ends : e >= f

\* The first pattern of _extract_room matches from position i: the position
\* after the match, 0 if it does not.
RoomSpanAt(text, i) ==
    LET js == {j \in (i + 1)..RunEnd(text, i, "label", 40) : RoomTailEnd(text, j) # 0}
    IN  IF WordBoundary(text, i) /\ js # {}
        THEN RoomTailEnd(text, CHOOSE j \in js : \A k \in js : j >= k)
        ELSE 0

\* A pattern that is one class repeated min to max times: the first run of
\* at least min characters of the class, cut at max; <<>> if there is none.
FirstRun(text, cls, min, max) ==
    LET i == First({i \in DOMAIN text : RunEnd(text, i, cls, max) - i >= min})
    IN  IF i = 0 THEN <<>> ELSE SubSeq(text, i, RunEnd(text, i, cls, max) - 1)

\* Lines 34-48.
_extract_room(ascii_payload) ==
    LET room_match == First({i \in DOMAIN ascii_payload : RoomSpanAt(ascii_payload, i) # 0})
        alt_match == FirstRun(ascii_payload, "label", 5, 40)
    IN  IF room_match # 0
        THEN _cleanup_ascii_block(SubSeq(ascii_payload, room_match,
                                         RoomSpanAt(ascii_payload, room_match) - 1))
        ELSE IF alt_match # <<>> THEN _cleanup_ascii_block(alt_match)
        ELSE Codes(T_UNKNOWN)

\* Lines 83-86: the event names looked for when the device name is absent.
Candidates ==
    <<
      <<"C", "a", "l", "l">>,
      <<"A", "c", "c", "e", "p", "t">>,
      <<"C", "a", "n", "c", "e", "l">>,
      <<"P", "r", "e", "s", "e", "n", "c", "e">>,
      <<"R", "e", "s", "e", "t">>,
      <<"R", "O", "O", "M", " ", "S", "E", "R", "V", "I", "C", "E">>,
      <<"D", "o", "c", "t", "o", "r", " ", "P", "r", "e", "s", "e", "n", "t">>,
      <<"P", "r", "e", "s", "e", "n", "t">>,
      <<"C", "A", "T", "E", "R", "I", "N", "G", " ", "S", "E", "R", "V", "I", "C", "E">>,
      <<"A", "l", "a", "r", "m">>,
      <<"A", "s", "s", "i", "s", "t", "a", "n", "c", "e">>,
      <<"L", "o", "w", "B", "a", "t", "t", "e", "r", "y">>,
      <<"E", "m", "e", "r", "g", "e", "n", "c", "y">>,
      <<"I", "s", "o", "l", "a", "t", "e">>
    >>

\* Lines 82-89: the first candidate that the payload contains, ignoring case.
CandidateEvent(ascii_payload) ==
    LET hits == {k \in DOMAIN Candidates :
                    find(lower(ascii_payload), lower(Codes(Candidates[k]))) # 0}
    IN  IF hits = {} THEN Codes(T_UNKNOWN)
        ELSE Codes(Candidates[CHOOSE k \in hits : \A l \in hits : k <= l])

\* bytes.hex().
RECURSIVE hex(_)
hex(buf) ==
    IF buf = <<>> THEN <<>>
    ELSE <<Ord(HexDigits[(buf[1] \div 16) + 1]), Ord(HexDigits[(buf[1] % 16) + 1])>>
            \o hex(Tail(buf))

\* A test of the framing that does not look at the last byte.
Framed_AnyTrailer(buf) ==
    /\ buf # <<>>
    /\ buf[1] = STX
    /\ Len(buf) - 2 >= MinPayload

\* Lines 52-57, negated: the buffer is not empty, begins with 0x02, ends with
\* 0x03 and has at least 24 bytes between the two.
Framed(buf) ==
    /\ buf # <<>>
    /\ buf[1] = STX /\ buf[Len(buf)] = ETX
    /\ Len(buf) - 2 >= MinPayload

\* Lines 50-117 on the bytes of a datagram.  Nothing in the body can raise:
\* latin1 decodes every byte, and split()[0] is taken of a str only if it is
\* not empty after strip().
decode(buf) ==
    IF ~Framed(buf) THEN NoDecode
    ELSE LET payload == SubSeq(buf, 2, Len(buf) - 1)
             ts_block == SubSeq(payload, 17, 24)
             ascii_payload == payload
             bed_label == _extract_bed(ascii_payload)
             room_label == _extract_room(ascii_payload)
             dev_idx == find(ascii_payload, Codes(T_Intercall))
             dev_alt == FirstRun(ascii_payload, "device", 6, 20)
             device_name == IF dev_idx # 0 THEN Codes(T_Intercall)
                       ELSE IF dev_alt # <<>> THEN _cleanup_ascii_block(dev_alt)
                       ELSE Codes(T_UNKNOWN)
             from == dev_idx + Len(T_Intercall)
             event_block == SubSeq(ascii_payload, from,
                                   IF from + 31 > Len(ascii_payload)
                                   THEN Len(ascii_payload) ELSE from + 31)
             event_name == IF dev_idx # 0
                      THEN (IF _cleanup_ascii_block(event_block) # <<>>
                            THEN split_first(_cleanup_ascii_block(event_block))
                            ELSE <<>>)
                      ELSE CandidateEvent(ascii_payload)
             title == IF bed_label # Codes(T_UNKNOWN) THEN bed_label ELSE room_label
             subtitle == IF bed_label # Codes(T_UNKNOWN) THEN room_label ELSE <<>>
         IN  [ok |-> TRUE,
              timestamp |-> _parse_timestamp(ts_block),
              room |-> strip(title),
              bed |-> strip(subtitle),
              bed_name |-> strip(bed_label),
              room_name |-> strip(room_label),
              device |-> strip(device_name),
              event |-> strip(event_name),
              raw_hex |-> hex(buf)]

\* ---------------------------------------------- the decoder on its own

\* The scenario's text, two 16-byte beginnings of a payload and three ends.
T_scenario ==
    <<"R","O","O","M"," ","1","0","1"," ","B","E","D"," ","N","o"," ","3"," ",
      "I","N","T","E","R","C","A","L","L","-","I","P"," ","C","a","l","l">>
T_head16 == <<"W","a","r","d"," ","R","M"," ","1","2"," ","b","e","d","-","7">>
T_tail_a == <<" ","N","U","R","S","E","-","0","1"," ","c","a","n","c","e","l">>
T_tail_b == <<"X","B","E","D"," ","4"," ","I","N","T","E","R","C","A","L","L","-","I","P">>

\* The six timestamp bytes tried.
Stamps ==
    {<<yy, mm, 15, hh, 30, ss>> : yy \in {0, 24, 99, 100, 255}, mm \in {1, 13},
                                  hh \in {10, 99}, ss \in {0, 200}}

Repeat(b, n) == [i \in 1..n |-> b]

\* The payloads tried: the scenario's with 0..MaxPad bytes 0x02 behind it;
\* 16 bytes, a timestamp and an end; and payloads of fewer than 24 bytes.
Payloads ==
    {<<24, 1, 15, 10, 30, 0>> \o Codes(T_scenario) \o Repeat(STX, pad) : pad \in 0..MaxPad}
    \cup {h \o ts \o t : h \in {Codes(T_head16), Repeat(0, 16)}, ts \in Stamps,
                         t \in {<<0, 0>>, Codes(T_tail_a), Codes(T_tail_b)}}
    \cup {Repeat(65, n) : n \in {0, 1, MinPayload - 1}}

\* The buffers tried: no byte, one byte, and every payload between a first
\* byte that is 0x02 or not and a last byte that is 0x03 or not.
Buffers ==
    {<<>>, <<STX>>, <<ETX>>}
    \cup {<<f>> \o p \o <<l>> : f \in {STX, 65}, l \in {ETX, STX}, p \in Payloads}

\* decode_l7700_packet is about to be called on a buffer.
DecodeInit ==
    /\ IngestOff
    /\ CamOff
    /\ todo = <<>> /\ lock = NULL
    /\ other = [op |-> "none", pc |-> "done", sid |-> NULL, n |-> 0, during |-> "none"]
    /\ feed = NoFeed
    /\ \E b \in Buffers : probe = [fn |-> "decode", pc |-> "call", buf |-> b, out |-> NoDecode]

\* The call returns.
DecodeBytes ==
    /\ probe.fn = "decode" /\ probe.pc = "call"
    /\ probe' = [probe EXCEPT !.pc = "done", !.out = decode(probe.buf)]
    /\ UNCHANGED ingest
    /\ UNCHANGED cams
    /\ UNCHANGED <<todo, lock, other, feed>>

DecodeSpec == DecodeInit /\ [][DecodeBytes]_vars

\* --------------------------------------------- the resolver on its own

T_12 == <<"1","2">>
T_2_12 == <<"2"," ","1","2">>
T_bed_a == <<"b","e","d"," ","a">>
T_x == <<"x">>

\* The beds a room may have: one, or two in either order of their ids (the
\* query has no ORDER BY), each with or without a number and a name.
BedLists ==
    LET Kinds == [bed_number : {<<>>, T_1, T_2, T_12}, bed_name : {<<>>, T_BedA}]
        Row(id, k) == [id |-> id, room_id |-> 1, bed_number |-> k.bed_number,
                       bed_name |-> k.bed_name]
    IN  {<<Row(1, k)>> : k \in Kinds}
        \cup {<<Row(1, k), Row(2, l)>> : k \in Kinds, l \in Kinds}
        \cup {<<Row(2, k), Row(1, l)>> : k \in Kinds, l \in Kinds}

\* The decoded fields the tokens are taken from.
Hints == [bed : {<<>>, T_1, T_2_12, T_bed_a}, device : {<<>>, T_x}, room : {<<>>, T_2}]

\* resolve_bed_in_room is about to be called for a room that has beds.
ResolveInit ==
    /\ IngestOff
    /\ CamOff
    /\ todo = <<>> /\ lock = NULL
    /\ other = [op |-> "none", pc |-> "done", sid |-> NULL, n |-> 0, during |-> "none"]
    /\ feed = NoFeed
    /\ \E bs \in BedLists, h \in Hints :
            probe = [fn |-> "resolve", pc |-> "call", beds |-> bs, dec |-> h, out |-> NULL]

\* The call returns.
ResolveBed ==
    /\ probe.fn = "resolve" /\ probe.pc = "call"
    /\ probe' = [probe EXCEPT !.pc = "done", !.out = BedAmong(probe.beds, Tokens(probe.dec))]
    /\ UNCHANGED ingest
    /\ UNCHANGED cams
    /\ UNCHANGED <<todo, lock, other, feed>>

ResolveSpec == ResolveInit /\ [][ResolveBed]_vars

\* Bed tables of up to MaxBeds rows over two rooms, in the order of their
\* ids or in the opposite order, each bed with or without a number.
BedTables ==
    LET Kinds == [room_id : {1, 2}, bed_number : {<<>>, T_1, T_2}]
        Row(id, k) == [id |-> id, room_id |-> k.room_id, bed_number |-> k.bed_number,
                       bed_name |-> <<>>]
        Up == UNION {{[i \in 1..n |-> Row(i, ks[i])] : ks \in [1..n -> Kinds]} : n \in 0..MaxBeds}
    IN  Up \cup {[i \in 1..Len(t) |-> t[Len(t) + 1 - i]] : t \in Up}

\* The decoded fields tried on them.
RoomHints == [bed : {<<>>, T_1, T_x}, device : {<<>>}, room : {<<>>, T_2}]

\* Line 405 is reached with the room found for the source address, or none.
ResolveRoomInit ==
    /\ IngestOff
    /\ CamOff
    /\ todo = <<>> /\ lock = NULL
    /\ other = [op |-> "none", pc |-> "done", sid |-> NULL, n |-> 0, during |-> "none"]
    /\ feed = NoFeed
    /\ \E t \in BedTables, r \in {NULL, 1, 2}, h \in RoomHints :
            probe = [fn |-> "resolve_bed", pc |-> "call", table |-> t, room |-> r,
                     dec |-> h, out |-> NULL]

\* The call returns.
ResolveRoomBed ==
    /\ probe.fn = "resolve_bed" /\ probe.pc = "call"
    /\ probe' = [probe EXCEPT !.pc = "done",
                              !.out = resolve_bed(probe.table, probe.room, probe.dec)]
    /\ UNCHANGED ingest
    /\ UNCHANGED cams
    /\ UNCHANGED <<todo, lock, other, feed>>

ResolveRoomSpec == ResolveRoomInit /\ [][ResolveRoomBed]_vars

\* ------------------------------------------------- the /camera response

\* server.py lines 321-333, camera_feed: the generator's while True begins a
\* turn with camera_manager.get_frame(room_name) (camera_stream.py lines
\* 258-262: the key is looked up; None without a stream, else the stream's
\* get_frame, which GetFrameCopy and GetFrameEncode carry out).
FeedPoll ==
    /\ feed.pc = "poll"
    /\ CanCall("feed")
    /\ nCalls' = nCalls + 1
    /\ LET key == _key(feed.room_name)
           cam == CameraOf(key)
       IN  call' = IF cam = NULL THEN Call("get_frame", "done", NULL, key)
                   ELSE Call("get_frame", "copy", cam, key)
    /\ feed' = [feed EXCEPT !.pc = "wait"]
    /\ UNCHANGED <<cam_env, streams, threads, caps, frames, cameras, published>>
    /\ UNCHANGED ingest
    /\ UNCHANGED <<todo, lock, other, probe>>

\* Lines 325-327: `if frame:` the bytes are yielded as one multipart chunk.
FeedYield ==
    /\ feed.pc = "wait" /\ call.pc = "done"
    /\ call.result # NoBytes
    /\ feed' = [feed EXCEPT !.pc = "poll",
                            !.chunks = Append(@, call.result.image.id)]
    /\ UNCHANGED cams
    /\ UNCHANGED ingest
    /\ UNCHANGED <<todo, lock, other, probe>>

\* Lines 328-330: `else:` time.sleep(0.1); nothing is yielded in this turn.
FeedSleep ==
    /\ feed.pc = "wait" /\ call.pc = "done"
    /\ call.result = NoBytes
    /\ feed' = [feed EXCEPT !.pc = "poll", !.idle = @ + 1]
    /\ UNCHANGED cams
    /\ UNCHANGED ingest
    /\ UNCHANGED <<todo, lock, other, probe>>

\* A manager that does not simulate, with no stream for "A", or with a live
\* or a simulated one registered and started, and a response for
\* /camera/A whose generator is about to take its first turn.
FeedInit ==
    /\ IngestOff
    /\ todo = <<>> /\ lock = NULL
    /\ other = [op |-> "none", pc |-> "done", sid |-> NULL, n |-> 0, during |-> "none"]
    /\ probe = NoProbe
    /\ feed = [pc |-> "poll", room_name |-> T_A, chunks |-> <<>>, idle |-> 0]
    /\ cam_env = [mode |-> "feed", use_simulation |-> FALSE]
    /\ \/ /\ streams = <<>> /\ threads = <<>> /\ cameras = {} /\ published = <<>>
       \/ \E kind \in {"real", "sim"} :
            /\ streams = <<[NewStream(kind, T_A) EXCEPT !.thread = 1]>>
            /\ threads = <<NewThread(1)>>
            /\ cameras = {<<T_A, 1>>}
            /\ published = << <<>> >>
    /\ caps = <<>> /\ frames = <<>>
    /\ call = NoCall /\ nCalls = 0

FeedNext ==
    \/ \E t \in DOMAIN threads : LoopStepOf(t)
    \/ FeedPoll \/ GetFrameCopy \/ GetFrameEncode \/ FeedYield \/ FeedSleep

FeedSpec == FeedInit /\ [][FeedNext]_vars

\* The loops run on (each is a thread of its own); nothing is assumed of the
\* generator, which advances only as fast as its client reads.
FeedFairSpec ==
    /\ FeedInit /\ [][FeedNext]_vars
    /\ \A t \in 1..MaxCalls : WF_vars(t \in DOMAIN threads /\ LoopStepOf(t))

\* ----------------------------------------------------------------- claims

SessionsOf(table, b) == SelectSeq(table, LAMBDA r : r.bed_id = b)
EventsOf(table, b) == SelectSeq(table, LAMBDA r : r.bed_id = b)
ActiveRows(table, b) == {i \in DOMAIN table : table[i].bed_id = b /\ table[i].status = "active"}

\* C1: in every state, committed storage and the open unit of work alike hold at
\* most one CallSession with status 'active' for every bed.
C1_OneActiveSessionPerBed ==
    \A b \in BedIds :
        /\ Cardinality(ActiveRows(db_call_sessions, b)) <= 1
        /\ Cardinality(ActiveRows(tx_call_sessions, b)) <= 1

\* C1 witness: a bed holds an active session next to an ended one, and a
\* storage failure has cost one of its cycles the Event.
C1_Witness ==
    /\ pc = "recv"
    /\ \E i, j \in DOMAIN db_call_sessions :
        /\ db_call_sessions[i].bed_id = db_call_sessions[j].bed_id
        /\ db_call_sessions[i].status = "ended"
        /\ db_call_sessions[j].status = "active"
    /\ Len(db_events) < Len(db_call_sessions) + 1

Received(c, id) == Cardinality({i \in DOMAIN inbox[c] : inbox[c][i] = id})

\* C3: when a cycle that began a broadcast ends, every subscriber whose send
\* raised in that broadcast is out of active_connections, and every other
\* subscriber that was in active_connections when the broadcast began and is
\* still connected has received the cycle's event exactly once.
C3_FailingSubscriberDropped ==
    pc = "close" /\ event_id # NULL =>
        /\ \A c \in Range(dead) : c \notin Live(active_connections)
        /\ \A c \in (bstart \ Range(dead)) \cap Live(active_connections) :
                Received(c, event_id) = 1

\* C4: when a cycle in which a storage call raised ends, committed storage is
\* what it was when the cycle began: no CallSession created, overwritten or
\* ended, and no Event stored.
C4_CycleIsAtomic ==
    pc = "close" /\ fault =>
        /\ db_call_sessions = sess0
        /\ db_events = ev0

\* An Event row's call_session_id is null or the id of a committed CallSession
\* of the Event's bed.
ValidReference(e) ==
    \/ e.call_session_id = NULL
    \/ /\ e.call_session_id \in DOMAIN db_call_sessions
       /\ db_call_sessions[e.call_session_id].id = e.call_session_id
       /\ db_call_sessions[e.call_session_id].bed_id = e.bed_id

\* C5: every Event row, committed or just added to the unit of work, has a
\* call_session_id that is null or the id of a CallSession row that is already
\* committed and belongs to the Event's bed.
C5_EventReferencesCommittedSession ==
    /\ \A i \in DOMAIN db_events : ValidReference(db_events[i])
    /\ \A i \in DOMAIN tx_events : ValidReference(tx_events[i])

\* C5 witness: an Event that was just added, not yet committed, references
\* the session its own cycle created and committed.
C5_Witness ==
    /\ pc = "event_commit"
    /\ Len(tx_events) = Len(db_events) + 1
    /\ tx_events[Len(tx_events)].call_session_id # NULL
    /\ Len(db_call_sessions) = Len(sess0) + 1
    /\ tx_events[Len(tx_events)].call_session_id = Len(db_call_sessions)

\* C6: between cycles, a bed whose current run of n stored non-reset events
\* began with no active session has exactly one CallSession more than before
\* the run, that session is active with current_event_type equal to the type
\* of the run's last event, and the bed has exactly n Events more than before.
C6_RunCreatesOneSession ==
    pc = "recv" =>
        \A b \in BedIds :
            run[b] # <<>> =>
                /\ Len(SessionsOf(db_call_sessions, b)) = runS[b] + 1
                /\ ActiveSessionOf(db_call_sessions, b) # NULL
                /\ db_call_sessions[ActiveSessionOf(db_call_sessions, b)].current_event_type
                        = run[b][Len(run[b])]
                /\ Len(EventsOf(db_events, b)) = runE[b] + Len(run[b])

\* C6 witness: a run of two events of different types has been processed for
\* a bed that had an ended session and two Events before the run.
C6_Witness ==
    /\ pc = "recv"
    /\ \E b \in BedIds :
        /\ Len(run[b]) = 2
        /\ run[b][1] # run[b][2]
        /\ runS[b] = 1
        /\ runE[b] = 2

\* The cycle at hand is for a reset, in any letter case, of a resolved bed.
ResetOfBed == pc = "close" /\ Lower(event_type) = T_reset /\ bed # NULL

\* C7: when the cycle of a reset (in any letter case) that stored its Event
\* ends, and the bed had an active session as the cycle began, that session is
\* ended with ended_at equal to the cycle's system time, it is no longer the
\* bed's active session, and no CallSession row was added.
C7_ResetEndsActiveSession ==
    ResetOfBed /\ event_id # NULL /\ ActiveSessionOf(sess0, bed) # NULL =>
        LET a == ActiveSessionOf(sess0, bed)
        IN  /\ Len(db_call_sessions) = Len(sess0)
            /\ db_call_sessions[a].status = "ended"
            /\ db_call_sessions[a].ended_at = system_time
            /\ ActiveSessionOf(db_call_sessions, bed) = NULL
            /\ \A i \in DOMAIN sess0 : i # a => db_call_sessions[i] = sess0[i]

\* C7 witness: a RESET has ended the session of a bed, and the clock has
\* moved on since the cycle took its system time.
C7_Witness ==
    /\ ResetOfBed /\ event_id # NULL /\ ActiveSessionOf(sess0, bed) # NULL
    /\ event_type = T_RESET
    /\ db_call_sessions[ActiveSessionOf(sess0, bed)].status = "ended"
    /\ now # system_time

\* C8: when the cycle of a reset for a bed that had no active session as the
\* cycle began ends, the committed CallSession rows are what they were, and
\* unless a storage call raised, the cycle stored its Event and did not pass
\* through the error path.
C8_ResetWithoutSessionIsNoOp ==
    ResetOfBed /\ ActiveSessionOf(sess0, bed) = NULL =>
        /\ db_call_sessions = sess0
        /\ ~fault => event_id # NULL /\ db_events[event_id].call_session_id = NULL

\* C8 witness: a reset arrived for a bed whose only session was already
\* ended, and its Event is stored.
C8_Witness ==
    /\ ResetOfBed /\ ActiveSessionOf(sess0, bed) = NULL
    /\ \E i \in DOMAIN sess0 : sess0[i].bed_id = bed /\ sess0[i].status = "ended"
    /\ ~fault /\ event_id # NULL

\* C9: when a cycle in which no storage call raised ends (only a packet that
\* decoded has a cycle), committed events hold exactly one row more than when
\* the cycle began; that row has null room_id and bed_id when no room has the
\* source address, and the room's id and a null bed_id when the room has no bed.
C9_OneEventPerDecodedPacket ==
    pc = "close" /\ ~fault =>
        /\ Len(db_events) = Len(ev0) + 1
        /\ SubSeq(db_events, 1, Len(ev0)) = ev0
        /\ event_id = Len(db_events)
        /\ LET e == db_events[Len(db_events)]
               r == RoomByIp(addr)
           IN  /\ e.room_id = r
               /\ r = NULL => e.bed_id = NULL
               /\ r # NULL /\ BedsOfRoom(r) = <<>> => e.bed_id = NULL
               /\ e.event_type = decoded.event

\* C9 witness: the Events of a packet from an unknown address and of a packet
\* from the room without beds are both stored.
C9_Witness ==
    /\ pc = "close" /\ ~fault
    /\ Len(db_events) = Len(ev0) + 1
    /\ \E i, j \in DOMAIN db_events :
        /\ db_events[i].room_id = NULL /\ db_events[i].bed_id = NULL
        /\ db_events[j].room_id = 2 /\ db_events[j].bed_id = NULL

\* C10: the step that decodes a datagram with broken framing or an undersized
\* payload goes straight back to receiving and changes neither committed
\* storage, nor the unit of work, nor any subscriber's inbox, nor the
\* subscriber set.
C10_DecodeFailureHasNoEffect ==
    [][pc = "decode" /\ data \in BadDatagrams =>
          /\ pc' = "recv"
          /\ UNCHANGED <<db_call_sessions, db_events, tx_call_sessions, tx_events,
                         inbox, active_connections>>]_vars

\* C10 witness: a datagram with a wrong last byte was discarded after an
\* earlier packet's Event had been stored and sent to a subscriber.
C10_Witness ==
    /\ pc = "recv"
    /\ data \in BadDatagrams /\ data.last # ETX
    /\ nPackets = 2
    /\ Len(db_events) = 1
    /\ \E c \in Live(active_connections) : inbox[c] = <<1>>

\* C11: of two committed Events of the same bed, the one with the smaller id
\* (stored first) belongs to the packet that arrived first; and every
\* subscriber's inbox lists the Events of a bed in the order in which their
\* packets arrived.
C11_ArrivalOrderKept ==
    /\ DOMAIN arrival = DOMAIN db_events
    /\ \A i, j \in DOMAIN db_events :
            /\ db_events[i].bed_id = db_events[j].bed_id
            /\ arrival[i] # 0 /\ arrival[i] < arrival[j]
            => i < j
    /\ \A i, j \in DOMAIN db_events :
            i < j /\ arrival[j] # 0 => arrival[i] < arrival[j]
    /\ \A c \in ConnIds : \A k, l \in DOMAIN inbox[c] :
            /\ k < l
            /\ inbox[c][k] \in DOMAIN db_events /\ inbox[c][l] \in DOMAIN db_events
            /\ db_events[inbox[c][k]].bed_id = db_events[inbox[c][l]].bed_id
            => arrival[inbox[c][k]] < arrival[inbox[c][l]]

\* C11 witness: two packets for one bed were stored as Events 1 and 2 and a
\* subscriber has received both notifications.
C11_Witness ==
    /\ Len(db_events) = 2
    /\ arrival = <<1, 2>>
    /\ db_events[1].bed_id = db_events[2].bed_id /\ db_events[1].bed_id # NULL
    /\ \E c \in ConnIds : Len(inbox[c]) = 2

\* C12: every notification in a subscriber's inbox is of a committed Event;
\* while the loop builds the payload, iterates or sends, the Event of the
\* packet in hand is committed; and a cycle that reaches its end without its
\* Event committed has delivered nothing.
C12_BroadcastAfterCommit ==
    /\ \A c \in ConnIds : \A k \in DOMAIN inbox[c] : inbox[c][k] \in DOMAIN db_events
    /\ pc \in {"build_message", "for_next", "send"} =>
            /\ event_id \in DOMAIN db_events
            /\ event_id = Len(ev0) + 1
            /\ arrival[event_id] = nPackets
    /\ pc = "close" /\ Len(db_events) = Len(ev0) =>
            \A c \in ConnIds : \A k \in DOMAIN inbox[c] : inbox[c][k] <= Len(ev0)

\* C12 witness: a storage call raised before the second packet's Event was
\* committed, the cycle ended without a delivery, and a connected subscriber
\* holds the notification of the first packet only.
C12_Witness ==
    /\ pc = "close" /\ fault /\ event_id = NULL
    /\ tx_events = db_events /\ Len(db_events) = 1 /\ ev0 = db_events
    /\ \E c \in Live(active_connections) : inbox[c] = <<1>>

\* C13: whenever the loop is sending to a subscriber it later receives again,
\* even if that subscriber's delivery never completes.
C13_SlowSubscriberDoesNotBlock ==
    (pc = "send") ~> (pc = "recv")

\* The frame a stream published last, or NULL before its first.
LastPublished(sid) ==
    IF published[sid] = <<>> THEN NULL ELSE published[sid][Len(published[sid])]

C15_StartIsIdempotent ==
    [][\A sid \in DOMAIN streams :
          call'.op = "start" /\ call'.sid = sid /\ nCalls' = nCalls + 1 =>
              IF Running(sid) # {}
              THEN threads' = threads /\ streams' = streams
              ELSE /\ Len(threads') = Len(threads) + 1
                   /\ Cardinality(Running(sid)') = 1]_vars

\* C16: every call of stop() returns, whatever the loops do; and from its
\* return until the next call the stop event is set and self.thread is None,
\* on a stream that was never started and on one stopped before alike.
C16_StopAlwaysReturns ==
    /\ (call.op = "stop" /\ call.pc # "done") ~> (call.op = "stop" /\ call.pc = "done")
    /\ [](call.op = "stop" /\ call.pc = "done" =>
            /\ streams[call.sid]._stop
            /\ streams[call.sid].thread = NULL)

\* C16 witness: the second of two stop() calls on a started live stream has
\* returned while the loop is still inside cap.read().
C16_Witness ==
    /\ call.op = "stop" /\ call.pc = "done"
    /\ nCalls = 3
    /\ streams[call.sid]._stop
    /\ \E t \in DOMAIN threads : threads[t].pc = "read"

\* C17: a capture loop of a live stream that is running when stop() sets the
\* stop event goes on to exit, wherever in its turn the signal caught it; and a
\* loop that has exited holds no open capture and is not the owner of self.cap.
C17_CancelledLoopExits ==
    /\ \A t \in 1..MaxCalls :
          (/\ t \in DOMAIN threads
           /\ threads[t].pc # "done"
           /\ streams[threads[t].sid].kind = "real"
           /\ streams[threads[t].sid]._stop)
          ~> (t \in DOMAIN threads /\ threads[t].pc = "done")
    /\ [](\A t \in DOMAIN threads :
            threads[t].pc = "done" =>
                /\ threads[t].cap = NULL \/ caps[threads[t].cap] = "released"
                /\ \A c \in DOMAIN caps :
                      streams[threads[t].sid].cap = c => caps[c] = "open" \/ Running(threads[t].sid) # {})

\* The same, for as long as the stop event stays set.
C17_ExitsWhileStopStaysSet ==
    \A t \in 1..MaxCalls :
        (/\ t \in DOMAIN threads
         /\ threads[t].pc # "done"
         /\ streams[threads[t].sid].kind = "real"
         /\ streams[threads[t].sid]._stop)
        ~> (t \in DOMAIN threads /\ (threads[t].pc = "done" \/ ~streams[threads[t].sid]._stop))

\* C18: a capture loop of a live stream ends only from its `while` test and
\* only with the stop event set; while it sleeps after a failure its capture
\* is released and is not the one self.cap refers to; and after every open
\* failure, read failure or exception it comes back to a connection attempt,
\* unless it finds the stop event set and ends.
C18_LoopExitsOnlyOnStop ==
    /\ [][\A t \in DOMAIN threads :
            streams[threads[t].sid].kind = "real" =>
                /\ threads[t].pc # "done" /\ threads'[t].pc = "done" =>
                       threads[t].pc = "top" /\ streams[threads[t].sid]._stop
                /\ threads[t].pc \in {"backoff", "backoff_open"} =>
                       threads'[t].pc \in {threads[t].pc, "finally", "top"}]_vars
    /\ [](\A t \in DOMAIN threads :
            threads[t].pc \in {"backoff", "backoff_open"} =>
                /\ threads[t].cap = NULL \/ caps[threads[t].cap] = "released"
                /\ streams[threads[t].sid].cap = NULL
                      \/ streams[threads[t].sid].cap # threads[t].cap)
    /\ \A t \in 1..MaxCalls :
          (/\ t \in DOMAIN threads
           /\ streams[threads[t].sid].kind = "real"
           /\ threads[t].pc \in {"open_failed", "finally"})
          ~> (t \in DOMAIN threads /\ threads[t].pc \in {"connect", "done"})

\* C18 witness: the only loop of a live stream that was never stopped has
\* had a capture, released it, and is at a connection attempt again.
C18_Witness ==
    /\ Len(threads) = 1 /\ nCalls = 1
    /\ streams[1].kind = "real" /\ ~streams[1]._stop
    /\ threads[1].pc = "connect"
    /\ Len(caps) = 1 /\ caps[1] = "released"

\* This step is a call of add_camera.
AddCalled == call'.op = "add_camera" /\ nCalls' = nCalls + 1

\* The step leaves the map, its streams and their threads as they were.
AddChangesNothing == streams' = streams /\ threads' = threads /\ cameras' = cameras

\* The step constructs one stream, starts one thread for it and puts it in
\* the map under the call's key.
AddCreatesOne ==
    /\ Len(streams') = Len(streams) + 1
    /\ SubSeq(streams', 1, Len(streams)) = streams
    /\ Len(threads') = Len(threads) + 1
    /\ SubSeq(threads', 1, Len(threads)) = threads
    /\ threads'[Len(threads')].sid = Len(streams')
    /\ streams'[Len(streams')].thread = Len(threads')
    /\ ~streams'[Len(streams')]._stop
    /\ cameras' = cameras \cup {<<call'.key, Len(streams')>>}

\* The map holds one stream for a key, its keys are trimmed, and every stream
\* in it has been started: it has a thread, which runs its loop.
MapOfStartedStreams ==
    /\ \A p, q \in cameras : p[1] = q[1] => p = q
    /\ \A p \in cameras :
          /\ p[1] = Strip(p[1])
          /\ p[2] \in DOMAIN streams
          /\ streams[p[2]].thread \in DOMAIN threads
          /\ threads[streams[p[2]].thread].sid = p[2]

RemoveCalled == call'.op = "remove_camera" /\ nCalls' = nCalls + 1

\* C20: remove_camera takes the key's stream out of the map and nothing else,
\* and changes nothing at all for a key that is not in the map; when it has
\* returned, the stream it removed has its stop event set and no thread; while
\* the key is not in the map get_frame returns None and has_frame False for
\* it, whatever the removed stream still holds; and an add_camera for the key
\* puts a stream in the map that did not exist before, with an empty slot.
C20_RemoveStopsAndDiscards ==
    /\ [][RemoveCalled =>
            /\ cameras' = {p \in cameras : p[1] # call'.key}
            /\ streams' = streams /\ threads' = threads
            /\ IF InCameras(call'.key)
               THEN call'.sid = CameraOf(call'.key) /\ call'.pc = "set"
               ELSE call'.sid = NULL /\ call'.pc = "done" /\ cameras' = cameras]_vars
    /\ [][AddCalled /\ call'.result = "added" =>
            /\ call'.sid \notin DOMAIN streams
            /\ cameras' = cameras \cup {<<call'.key, call'.sid>>}
            /\ streams'[call'.sid].frame = NULL
            /\ published'[call'.sid] = <<>>]_vars
    /\ [](call.op = "remove_camera" /\ call.pc = "done" =>
            /\ ~InCameras(call.key)
            /\ call.sid # NULL =>
                  streams[call.sid]._stop /\ streams[call.sid].thread = NULL)
    /\ [](call.op = "get_frame" /\ call.pc = "done" /\ ~InCameras(call.key) =>
            call.result = NoBytes)
    /\ [](call.op = "has_frame" /\ ~InCameras(call.key) => call.result = FALSE)

\* C20 witness: after add_camera and remove_camera for a key whose stream had
\* published a frame, has_frame for the key has returned.
C20_Witness ==
    /\ call.op = "has_frame" /\ call.pc = "done" /\ nCalls = 3
    /\ ~InCameras(call.key)
    /\ \E sid \in DOMAIN streams :
          /\ streams[sid].room_name = call.key
          /\ streams[sid]._stop
          /\ streams[sid].frame # NULL

\* C21: shutdown empties the map at once; when it has returned the map is
\* empty and the stop event of every stream is set, whether or not stopping
\* one of them raised; and a shutdown that finds the map empty changes
\* nothing and stops nothing.
C21_ShutdownStopsAll ==
    /\ [][call'.op = "shutdown" /\ nCalls' = nCalls + 1 =>
            /\ cameras' = {}
            /\ streams' = streams /\ threads' = threads
            /\ \A p \in cameras : \E i \in DOMAIN todo' : todo'[i] = p[2]
            /\ cameras = {} => todo' = <<>>]_vars
    /\ [][call.op = "shutdown" /\ call.pc = "next" /\ todo = <<>> /\ call' # call =>
            /\ streams' = streams /\ threads' = threads /\ cameras' = cameras
            /\ call'.op = "shutdown" /\ call'.pc = "done"]_vars
    /\ [](call.op = "shutdown" /\ call.pc = "done" =>
            /\ cameras = {}
            /\ todo = <<>>
            /\ \A sid \in DOMAIN streams : streams[sid]._stop)

\* C21 witness: with two streams registered, shutdown has returned and left
\* both loops signalled, one of them still running.
C21_Witness ==
    /\ call.op = "shutdown" /\ call.pc = "done" /\ nCalls = 3
    /\ Len(streams) = 2 /\ cameras = {}
    /\ streams[1]._stop /\ streams[2]._stop
    /\ Running(1) # {}

\* C22: neither caller holds the manager's lock while it stops or joins a
\* stream or copies or encodes a frame, and every call of the second caller,
\* on its own room key, returns, wherever the first caller's stop() or
\* get_frame() and the loop of its stream are held up.
C22_MapLockNeverHeldOutside ==
    /\ [](call.pc \in {"set", "release", "join", "copy", "encode"} => lock # 1)
    /\ [](other.pc = "outside" => lock # 2)
    /\ (other.pc # "done") ~> (other.pc = "done")

\* C22 witness: the second caller removed its stream, having taken the lock
\* while the first caller was in the join of remove_camera on a stream whose
\* loop sits in cap.read().
C22_Witness ==
    /\ call.op = "remove_camera" /\ call.pc = "join"
    /\ threads[1].pc = "read"
    /\ other.op = "remove_camera" /\ other.pc = "done" /\ other.sid # NULL
    /\ other.during = "join"

\* C23: a chunk the /camera generator sends is the frame get_frame copied, and
\* the frame get_frame copies is the one in the slot at that moment, the last
\* one published, so a frame published and overwritten between two polls is
\* never sent and the frames sent never go back in production order; and a
\* loop that is about to publish does publish, whatever the generator does,
\* also when it never takes another step.
C23_LatestFrameNoBackpressure ==
    /\ [][call.pc = "copy" /\ call'.pc = "encode" =>
            /\ published[call.sid] # <<>>
            /\ call'.copy.id = published[call.sid][Len(published[call.sid])]]_vars
    /\ [][Len(feed'.chunks) > Len(feed.chunks) =>
            feed'.chunks = Append(feed.chunks, call.copy.id)]_vars
    /\ [](\A i, j \in DOMAIN feed.chunks : i < j => feed.chunks[i] <= feed.chunks[j])
    /\ \A t \in 1..MaxCalls :
            (t \in DOMAIN threads /\ threads[t].pc = "publish")
                ~> (t \in DOMAIN threads /\ threads[t].pc # "publish")

\* C23 witness: the stream has published frames 1 and 2, the generator has
\* sent frame 2 only, and the loop has produced the next frame while the
\* generator has not begun another poll.
C23_Witness ==
    /\ feed.chunks = <<2>> /\ feed.pc = "poll"
    /\ published = << <<1, 2>> >>
    /\ streams[1].kind = "real"

\* C24: a turn of the /camera generator whose get_frame returned None (no
\* stream registered for the room, or nothing published yet) sends a chunk.
C24_PlaceholderWhenNoFrame ==
    [][feed.pc = "wait" /\ call.pc = "done" /\ call.result = NoBytes /\ feed' # feed =>
            Len(feed'.chunks) = Len(feed.chunks) + 1]_vars

\* C25: a connection's received notifications change only by a send of the
\* broadcast in progress appending the event being broadcast to the
\* connection the loop is sending to (connecting delivers nothing, no stored
\* event is sent again), and the connection a send goes to is taken from the
\* connection dict as it is at that moment of the broadcast.
C25_NoReplay ==
    /\ [][inbox' # inbox =>
            /\ pc = "send"
            /\ inbox' = [inbox EXCEPT ![ws] = Append(@, event_id)]
            /\ \A i \in DOMAIN inbox[ws] : inbox[ws][i] < event_id]_vars
    /\ [][pc' = "send" /\ pc # "send" => ws' \in Live(active_connections)]_vars

\* C25 witness: the first connection has received two notifications, the
\* second, which connected after the first broadcast, only the later one.
C25_Witness ==
    /\ pc = "recv"
    /\ Len(inbox[1]) = 2 /\ Len(inbox[2]) = 1
    /\ inbox[2][1] = inbox[1][2]

\* C26: whenever the ingestion task has ended because the bind failed, no
\* subscriber connection has been accepted.
C26_BindFailureAbortsStartup ==
    pc = "exited" => opened = 0 /\ active_connections = <<>>

\* The names of the fields of a decoded packet.
FieldNames ==
    {"ok", "timestamp", "room", "bed", "bed_name", "room_name", "device", "event", "raw_hex"}

\* C27: decode returns None for a buffer that is empty, or whose first byte
\* is not 0x02, or whose last byte is not 0x03, or that has fewer than 24
\* bytes between the first and the last, and for every other buffer a result
\* that has every field.
C27_DecodeFailsExactlyOnBadFraming ==
    probe.fn = "decode" /\ probe.pc = "done" =>
        IF \/ probe.buf = <<>>
           \/ probe.buf[1] # 2
           \/ probe.buf[Len(probe.buf)] # 3
           \/ Len(probe.buf) - 2 < 24
        THEN probe.out = [ok |-> FALSE]
        ELSE probe.out.ok /\ DOMAIN probe.out = FieldNames

\* C27 witness: a buffer with exactly 24 bytes between 0x02 and 0x03 has
\* been decoded to a result.
C27_Witness ==
    /\ probe.fn = "decode" /\ probe.pc = "done"
    /\ Len(probe.buf) = 26
    /\ probe.out.ok

\* The number a str of decimal digits denotes.
RECURSIVE ValueOf(_)
ValueOf(digits) ==
    IF digits = <<>> THEN 0
    ELSE 10 * ValueOf(SubSeq(digits, 1, Len(digits) - 1)) + (digits[Len(digits)] - 48)

\* The positions of the characters of a str that are not digits, in order,
\* and the k-th run of digits between them.
SeparatorsOf(ts) == SelectSeq([i \in DOMAIN ts |-> i], LAMBDA i : ts[i] \notin 48..57)
PartOf(ts, k) ==
    LET seps == SeparatorsOf(ts)
    IN  SubSeq(ts, IF k = 1 THEN 1 ELSE seps[k - 1] + 1,
                   IF k > Len(seps) THEN Len(ts) ELSE seps[k] - 1)

\* C28: the timestamp of a decoded packet reads year-month-day
\* hour:minute:second, where the year is 2000 plus byte 16 of the payload if
\* that byte is below 100 and the byte itself otherwise, and the five other
\* numbers are bytes 17 to 21 of the payload, whatever their value, written
\* with two digits, or with the three digits a value from 100 on has.
C28_TimestampFromRawBytes ==
    probe.fn = "decode" /\ probe.pc = "done" /\ probe.out # [ok |-> FALSE] =>
        LET ts == probe.out.timestamp
            byte(k) == probe.buf[2 + 16 + k]
        IN  /\ [i \in 1..Len(SeparatorsOf(ts)) |-> ts[SeparatorsOf(ts)[i]]]
                    = <<45, 45, 32, 58, 58>>
            /\ ValueOf(PartOf(ts, 1)) = IF byte(0) < 100 THEN 2000 + byte(0) ELSE byte(0)
            /\ \A k \in 1..5 :
                    /\ ValueOf(PartOf(ts, k + 1)) = byte(k)
                    /\ Len(PartOf(ts, k + 1)) = IF byte(k) < 100 THEN 2 ELSE 3

\* C28 witness: a packet whose payload has 100, 13 and 99 for year, month
\* and hour has been decoded.
C28_Witness ==
    /\ probe.fn = "decode" /\ probe.pc = "done" /\ probe.out # [ok |-> FALSE]
    /\ probe.buf[18] = 100 /\ probe.buf[19] = 13 /\ probe.buf[21] = 99
    /\ probe.out.timestamp = Codes(<<"0","1","0","0","-","1","3","-","1","5"," ",
                                     "9","9",":","3","0",":","0","0">>)

\* C29: the frame 0x02, the bytes 24 1 15 10 30 0, the text
\* 'ROOM 101 BED No 3 INTERCALL-IP Call', any number of bytes 0x02, 0x03
\* decodes to a room label that contains '101', the bed label 'Bed No 3',
\* the device 'INTERCALL-IP' and the event 'Call'.
C29_ScenarioDecodes ==
    (/\ probe.fn = "decode" /\ probe.pc = "done"
     /\ \E pad \in 0..MaxPad :
            probe.buf = <<2, 24, 1, 15, 10, 30, 0>> \o Codes(T_scenario)
                            \o [i \in 1..pad |-> 2] \o <<3>>)
    => (/\ probe.out # [ok |-> FALSE]
        /\ find(probe.out.room_name, Codes(<<"1","0","1">>)) # 0
        /\ probe.out.bed_name = Codes(<<"B","e","d"," ","N","o"," ","3">>)
        /\ probe.out.device = Codes(T_Intercall)
        /\ probe.out.event = Codes(T_Call))

\* The beds a token equals in number or name, ignoring case; the beds whose
\* normalized number or name contains a normalized token or is contained in
\* one; the beds whose number is a number standing alone in the tokens.
ExactBeds(beds, tokens) ==
    {beds[b].id : b \in {b \in DOMAIN beds : \E t \in DOMAIN tokens :
        \/ beds[b].bed_number # <<>> /\ Lower(Strip(beds[b].bed_number)) = Lower(tokens[t])
        \/ beds[b].bed_name # <<>> /\ Lower(Strip(beds[b].bed_name)) = Lower(tokens[t])}}
SubstringBeds(beds, tokens) ==
    {beds[b].id : b \in {b \in DOMAIN beds : \E t \in DOMAIN tokens :
        /\ _norm(tokens[t]) # <<>>
        /\ \/ Contains(_norm(beds[b].bed_name), _norm(tokens[t]))
           \/ Contains(_norm(beds[b].bed_number), _norm(tokens[t]))
           \/ /\ _norm(beds[b].bed_name) # <<>>
              /\ Contains(_norm(tokens[t]), _norm(beds[b].bed_name))
           \/ /\ _norm(beds[b].bed_number) # <<>>
              /\ Contains(_norm(tokens[t]), _norm(beds[b].bed_number))}}
NumericBeds(beds, tokens) ==
    {beds[b].id : b \in {b \in DOMAIN beds :
        \E n \in Range(FindAllNums(JoinSp(tokens))) : Strip(beds[b].bed_number) = n}}

\* C30: the bed returned is one a token equals in number or name if there is
\* such a bed, also when another bed, earlier in the list, matches as a
\* substring; if there is none, a bed that matches as a substring if there is
\* one, also when another bed matches a number of the tokens; if there is
\* none, a bed whose number is a number of the tokens if there is one; and
\* only if there is none of these the only bed or the bed of the least id.
C30_TiersInOrder ==
    probe.fn = "resolve" /\ probe.pc = "done" =>
        LET beds == probe.beds
            tokens == Tokens(probe.dec)
            E == ExactBeds(beds, tokens)
            S == SubstringBeds(beds, tokens)
            N == NumericBeds(beds, tokens)
        IN  /\ E # {} => probe.out \in E
            /\ E = {} /\ S # {} => probe.out \in S
            /\ E = {} /\ S = {} /\ N # {} => probe.out \in N
            /\ N # {} => probe.out \in E \cup S \cup N
            /\ E = {} /\ S = {} /\ N = {} =>
                    /\ \E b \in DOMAIN beds : beds[b].id = probe.out
                    /\ \A b \in DOMAIN beds : probe.out <= beds[b].id

\* C30 witness: the token "1" equals the number of the second bed of the
\* list and is a substring of the number "12" of the first; the second bed
\* is returned.
C30_Witness ==
    /\ probe.fn = "resolve" /\ probe.pc = "done"
    /\ Len(probe.beds) = 2
    /\ probe.beds[1].bed_number = T_12 /\ probe.beds[2].bed_number = T_1
    /\ probe.dec = [bed |-> T_1, device |-> <<>>, room |-> <<>>]
    /\ probe.out = probe.beds[2].id

\* C31: no bed is returned exactly when there is no room or the table has
\* no bed of the room; a bed returned is a bed of the room; and when no
\* token equals, contains, is contained in or numbers any bed of the room,
\* the bed returned is the one of the least id among the room's beds (the
\* only one, if there is one).
C31_NoBedOnlyWithoutBeds ==
    probe.fn = "resolve_bed" /\ probe.pc = "done" =>
        LET mine == {i \in DOMAIN probe.table : probe.table[i].room_id = probe.room}
            ids == {probe.table[i].id : i \in mine}
            beds == SelectSeq(probe.table, LAMBDA b : b.room_id = probe.room)
            tokens == Tokens(probe.dec)
        IN  /\ probe.out = NULL <=> (probe.room = NULL \/ mine = {})
            /\ probe.out # NULL => probe.out \in ids
            /\ /\ probe.room # NULL /\ mine # {}
               /\ ExactBeds(beds, tokens) \cup SubstringBeds(beds, tokens)
                        \cup NumericBeds(beds, tokens) = {}
               => \A id \in ids : probe.out <= id

\* C31 witness: room 1 has beds 2 and 3, listed after each other from the
\* higher id, bed 1 is in room 2, nothing in the packet matches, and bed 2
\* is returned.
C31_Witness ==
    /\ probe.fn = "resolve_bed" /\ probe.pc = "done"
    /\ probe.room = 1 /\ Len(probe.table) = 3
    /\ probe.table[1].id = 3 /\ probe.table[1].room_id = 1
    /\ probe.table[2].id = 2 /\ probe.table[2].room_id = 1
    /\ probe.table[3].id = 1 /\ probe.table[3].room_id = 2
    /\ Tokens(probe.dec) = <<>>
    /\ probe.out = 2

\* C32: the iteration of a broadcast never ends in the error path, whatever
\* connects or disconnects while a send is awaited, and when it ends every
\* connection that was in active_connections when it began, is still there
\* and whose send did not raise has received the event once.
C32_BroadcastSurvivesChurn ==
    [][pc = "for_next" /\ pc' # "for_next" =>
            /\ pc' # "except"
            /\ pc' = "close" =>
                    \A c \in (bstart \cap Live(active_connections)) \ Range(dead) :
                        Received(c, event_id) = 1]_vars

\* C33: whatever start() and stop() calls were made on a stream, at most one
\* loop of that stream is alive.
C33_OneLoopPerStream ==
    \A sid \in DOMAIN streams : Cardinality(Running(sid)) <= 1

\* Two loops of one stream are both about to write its frame slot.
C33_TwoWriters ==
    \E sid \in DOMAIN streams : \E t1, t2 \in Running(sid) :
        t1 # t2 /\ threads[t1].pc = "publish" /\ threads[t2].pc = "publish"

\* The steps of a cycle between the resolution of the bed and the commit of
\* the Event.
InStorageSteps ==
    pc \in {"reset_branch", "reset_commit", "session_branch", "session_commit",
            "session_id", "save_event", "event_commit"}

\* An Event row carries a session exactly when it has a bed and is no reset.
LinkedWhenBedAndNotReset(e) ==
    e.call_session_id # NULL <=> (e.bed_id # NULL /\ ~IsReset(e.event_type))

\* C34: every stored Event has a call_session_id exactly when it has a bed and
\* its type is not a reset in any letter case; the Event a cycle commits with
\* a call_session_id carries the id of the session of its bed that is active
\* once the cycle has committed; and a cycle that resolved no bed leaves the
\* CallSession rows as they are, committed or not.
C34_SessionLinkFollowsBedAndType ==
    /\ [](\A i \in DOMAIN db_events : LinkedWhenBedAndNotReset(db_events[i]))
    /\ [][Len(db_events') = Len(db_events) + 1 =>
            LET e == db_events'[Len(db_events')]
                a == ActiveSessionOf(db_call_sessions', e.bed_id)
            IN  e.call_session_id # NULL =>
                    a # NULL /\ db_call_sessions'[a].id = e.call_session_id]_vars
    /\ [][InStorageSteps /\ bed = NULL =>
            /\ db_call_sessions' = db_call_sessions
            /\ tx_call_sessions' = tx_call_sessions]_vars

\* C34 witness: two cycles of this run have committed a call of a bed, which
\* carries the session it opened, and then an upper-case reset of that bed,
\* which carries none and has ended that session.
C34_Witness ==
    /\ pc = "build_message"
    /\ Len(db_events) >= 2
    /\ arrival[Len(db_events) - 1] # 0
    /\ LET n == Len(db_events)
           e1 == db_events[n - 1]
           e2 == db_events[n]
       IN  /\ e1.bed_id # NULL /\ ~IsReset(e1.event_type)
           /\ e1.call_session_id # NULL
           /\ e2.bed_id = e1.bed_id /\ e2.event_type = T_RESET
           /\ e2.call_session_id = NULL
           /\ db_call_sessions[e1.call_session_id].status = "ended"

\* The committed CallSession rows that are ended.
EndedRows(table) == {i \in DOMAIN table : table[i].status = "ended"}

\* C35: a committed CallSession whose status is 'ended' stays in storage with
\* the same status, ended_at and current_event_type in every later state; and
\* when the cycle of a non-reset event changes the committed sessions of a bed
\* that had no active one, it adds one active row for that bed and leaves
\* every other row as it was.
C35_EndedIsTerminal ==
    /\ [][\A i \in EndedRows(db_call_sessions) :
            /\ i \in DOMAIN db_call_sessions'
            /\ db_call_sessions'[i].status = "ended"
            /\ db_call_sessions'[i].ended_at = db_call_sessions[i].ended_at
            /\ db_call_sessions'[i].current_event_type
                    = db_call_sessions[i].current_event_type]_vars
    /\ [][/\ db_call_sessions' # db_call_sessions
          /\ ~IsReset(event_type)
          /\ ActiveSessionOf(db_call_sessions, bed) = NULL
          => /\ Len(db_call_sessions') = Len(db_call_sessions) + 1
             /\ SubSeq(db_call_sessions', 1, Len(db_call_sessions)) = db_call_sessions
             /\ LET r == db_call_sessions'[Len(db_call_sessions')]
                IN  /\ r.bed_id = bed /\ r.status = "active"
                    /\ r.current_event_type = event_type
                    /\ r.id \notin {db_call_sessions[i].id : i \in DOMAIN db_call_sessions}]_vars

\* C35 witness: the second packet of the run is a call of a bed whose session
\* was ended when its cycle began, and get_or_create_call_session has
\* committed a second session, active, next to the ended one.
C35_Witness ==
    /\ pc = "session_id"
    /\ bed # NULL
    /\ Len(db_call_sessions) = Len(sess0) + 1
    /\ db_call_sessions[Len(db_call_sessions)].bed_id = bed
    /\ db_call_sessions[Len(db_call_sessions)].status = "active"
    /\ \E i \in EndedRows(sess0) :
            /\ sess0[i].bed_id = bed
            /\ sess0[i].ended_at # NULL
            /\ db_call_sessions[i] = sess0[i]
    /\ nPackets = 2
====
